---- MODULE Spec2Model ----
(***************************************************************************)
(* A model of mlflow_client: the local filesystem store written by         *)
(* LocalBackend (backends.py) and LocalRun (runs.py), and the hook wrapper *)
(* with_hooks (hooks.py) around LocalRun.start_run / end_run.              *)
(*                                                                         *)
(* Python values are records [t, v, items]: t is the Python type name, v   *)
(* the text str() gives, items the elements of a list.  The store is one   *)
(* tree, keyed by the path below <root>/mlruns as a sequence of names.     *)
(***************************************************************************)
EXTENDS Integers, Sequences, FiniteSets, TLC

VARIABLES
    cls,        \* the class of the object under test: "LocalBackend" or "LocalRun"
    fs,         \* the tree below <root>/mlruns: path -> node
    backend,    \* the LocalBackend object's fields
    blocks,     \* how many `with backend.start_run(..)` blocks are open
    run,        \* the LocalRun object's fields
    call,       \* the locals of the with_hooks wrapper, executing or last executed
    sent,       \* the notifications POSTed by the current / last wrapped call
    logged,     \* per document, the values passed to the log calls that returned
    result,     \* the last call made on the object and what it raised
    uuids,      \* how many ids uuid.uuid1() has given out
    starts,     \* how many start_run calls were made
    clock,      \* how many times log_model was called: the reading of datetime.now()
    ops,        \* how many log_* calls were made
    client,     \* the MLClient object's fields, and where its current call stands
    dropped,    \* the Run objects the client created and no longer refers to
    env,        \* the process: whether mlflow can be imported, and os.environ (None: unset)
    mlflow,     \* the state of the mlflow module: its tracking URI and active run
    procs       \* two processes logging to one run directory: where each call stands

\* the variables of client.py and of the processes around it
clientVars == <<client, dropped, env, mlflow, procs>>

vars == <<cls, fs, backend, blocks, run, call, sent, logged, result, uuids, starts, clock, ops,
          clientVars>>

----------------------------------------------------------------------------
(* Bounds of the model *)

MaxOps == 2         \* log_* calls in one behaviour
MaxStarts == 2      \* start_run calls in one behaviour
MaxStoreStarts == 1 \* start_run calls in one behaviour of Spec, which logs most
MaxNest == 1        \* `with backend.start_run()` blocks open at once
MaxHooks == 2       \* hooks registered for one event

----------------------------------------------------------------------------
(* Python values *)

PyVal(t, v) == [t |-> t, v |-> v, items |-> <<>>]
None == PyVal("NoneType", "None")
PyInt(v) == PyVal("int", v)
PyFloat(v) == PyVal("float", v)
PyStr(v) == PyVal("str", v)
PyBool(v) == PyVal("bool", v)
PyList(xs) == [t |-> "list", v |-> "", items |-> xs]
PyObject(v) == PyVal("object", v)
PyUuid(k) == PyVal("UUID", "uuid-" \o ToString(k))

\* bool(x): the truth value Python's `or`, `if` and `not` give x
Truthy(x) ==
    CASE x.t = "NoneType" -> FALSE
      [] x.t = "int" -> x.v # "0"
      [] x.t = "float" -> x.v # "0.0"
      [] x.t = "bool" -> x.v = "True"
      [] x.t = "str" -> x.v # ""
      [] x.t = "list" -> x.items # <<>>
      [] x.t = "dict" -> x.v # "{}"
      [] OTHER -> TRUE

\* x or y
PyOr(x, y) == IF Truthy(x) THEN x ELSE y

\* str(x), for the values the program converts
Str(x) == x.v

\* isinstance(x, str)
IsInstanceStr(x) == x.t = "str"

\* uuid.uuid1(): the next id not given out before
uuid1 == PyUuid(uuids + 1)

----------------------------------------------------------------------------
(* json.dump / json.load.  A JSON value is a record [j, v, items]. *)

RECURSIVE JsonDump(_)
JsonDump(x) ==
    CASE x.t = "int" -> [j |-> "int", v |-> x.v, items |-> <<>>]
      [] x.t = "float" -> [j |-> "real", v |-> x.v, items |-> <<>>]
      [] x.t = "str" -> [j |-> "string", v |-> x.v, items |-> <<>>]
      [] x.t = "bool" -> [j |-> IF x.v = "True" THEN "true" ELSE "false",
                          v |-> "", items |-> <<>>]
      [] x.t = "NoneType" -> [j |-> "null", v |-> "", items |-> <<>>]
      [] x.t = "dict" -> [j |-> "object", v |-> x.v, items |-> <<>>]
      [] x.t = "list" -> [j |-> "array", v |-> "",
                          items |-> [i \in 1..Len(x.items) |-> JsonDump(x.items[i])]]

RECURSIVE JsonLoad(_)
JsonLoad(y) ==
    CASE y.j = "int" -> PyInt(y.v)
      [] y.j = "real" -> PyFloat(y.v)
      [] y.j = "string" -> PyStr(y.v)
      [] y.j = "true" -> PyBool("True")
      [] y.j = "false" -> PyBool("False")
      [] y.j = "null" -> None
      [] y.j = "object" -> PyVal("dict", y.v)
      [] y.j = "array" -> PyList([i \in 1..Len(y.items) |-> JsonLoad(y.items[i])])

\* a dict with str keys <-> a JSON object
DumpDoc(d) == [k \in DOMAIN d |-> JsonDump(d[k])]
LoadDoc(o) == [k \in DOMAIN o |-> JsonLoad(o[k])]

EmptyDict == [k \in {} |-> None]

\* d[key] = [value]: the sequence is replaced, not extended
SetDefaultOverwrite(d, key, value) ==
    [k \in DOMAIN d \cup {key} |-> IF k = key THEN PyList(<<value>>) ELSE d[k]]

\* d.setdefault(key, []).append(value)
SetDefaultAppend(d, key, value) ==
    [k \in DOMAIN d \cup {key} |->
        IF k = key
        THEN PyList(Append(IF key \in DOMAIN d THEN d[key].items ELSE <<>>, value))
        ELSE d[k]]

\* d[key] = value
SetItem(d, key, value) ==
    [k \in DOMAIN d \cup {key} |-> IF k = key THEN value ELSE d[k]]

----------------------------------------------------------------------------
(* Exceptions *)

Exc(type, msg) == [type |-> type, msg |-> msg]
NoError == Exc("None", "")
RunNotActive == Exc("ValueError", "Logging method called without any active run")
InvalidMetricType == Exc("ValueError", "Metrics should be only numerical")
InvalidRunId == Exc("ValueError", "Run Id cannot be None or 0")
InvalidModelSource == Exc("ValueError", "For Pyfunc models, model needs to be a path")
MissingEntryPoint == Exc("ValueError", "For Pyfunc models, param load_entry_point needs to be passed")
FileNotFound == Exc("FileNotFoundError", "No such file or directory")
FileExists == Exc("FileExistsError", "File exists")
IsADirectory == Exc("IsADirectoryError", "Is a directory")
NotADirectory == Exc("NotADirectoryError", "Not a directory")
EnvironmentFailure == Exc("OSError", "log_environnment failed")
ConnectionError == Exc("ConnectionError", "Max retries exceeded")
HooksNotIterable == Exc("TypeError", "argument of type 'NoneType' is not iterable")
JSONDecodeError == Exc("JSONDecodeError", "Expecting value")
NotSerializable == Exc("TypeError", "Object of type generator is not JSON serializable")
PicklingError == Exc("PicklingError", "Can't pickle <function <lambda>>")

----------------------------------------------------------------------------
(* The filesystem: os and shutil on the tree `f` *)

Dir == [kind |-> "dir", fmt |-> "", doc |-> <<>>, data |-> ""]
JsonFile(o) == [kind |-> "file", fmt |-> "json", doc |-> o, data |-> ""]
DataFile(d) == [kind |-> "file", fmt |-> "data", doc |-> <<>>, data |-> d]

EmptyTree == [p \in {} |-> Dir]

Join(p, q) == p \o q
Basename(p) == <<p[Len(p)]>>
Dirname(p) == SubSeq(p, 1, Len(p) - 1)
Prefixes(p) == {SubSeq(p, 1, k) : k \in 0..Len(p)}

Exists(f, p) == p \in DOMAIN f
IsDirAt(f, p) == p \in DOMAIN f /\ f[p].kind = "dir"
IsFileAt(f, p) == p \in DOMAIN f /\ f[p].kind = "file"

\* The directory <root> that holds mlruns exists before the program runs; the
\* tree holds the nodes below it, <<>> being <root>/mlruns itself.

\* os.makedirs(p, exist_ok=True): the error it raises, NoError when it succeeds
MakedirsError(f, p) ==
    IF \E q \in Prefixes(p) : IsFileAt(f, q)
    THEN (IF IsFileAt(f, p) THEN FileExists ELSE NotADirectory)
    ELSE NoError

Makedirs(f, p) ==
    [q \in DOMAIN f \cup Prefixes(p) |-> IF q \in DOMAIN f THEN f[q] ELSE Dir]

\* open(p, 'w'): the error it raises
OpenWriteError(f, p) ==
    IF IsDirAt(f, p) THEN IsADirectory
    ELSE IF p = <<>> \/ IsDirAt(f, Dirname(p)) THEN NoError
    ELSE IF Exists(f, Dirname(p)) THEN NotADirectory
    ELSE FileNotFound

\* the tree after the file p was written with `node`
WriteFile(f, p, node) ==
    [q \in DOMAIN f \cup {p} |-> IF q = p THEN node ELSE f[q]]

\* open(p, 'r'): the error it raises
OpenReadError(f, p) ==
    IF IsDirAt(f, p) THEN IsADirectory
    ELSE IF IsFileAt(f, p) THEN NoError
    ELSE FileNotFound

----------------------------------------------------------------------------
(* The caller's own files, outside the store: the sources of artifacts and  *)
(* of externally serialized models.  Paths are given as strings.            *)

SrcTree ==
    (<<"test.txt">> :> DataFile("text-A")) @@
    (<<"v2">> :> Dir) @@
    (<<"v2", "test.txt">> :> DataFile("text-B")) @@
    (<<"resources">> :> Dir) @@
    (<<"resources", "model.pkl">> :> DataFile("pickle-M"))

\* the components of a path string
PathOf(s) ==
    CASE s = "v2/test.txt" -> <<"v2", "test.txt">>
      [] s = "resources/model.pkl" -> <<"resources", "model.pkl">>
      [] OTHER -> <<s>>

\* shutil.copy(src, dst): src in the caller's files, dst in the store
CopyDst(f, src, dst) == IF IsDirAt(f, dst) THEN Join(dst, Basename(src)) ELSE dst

CopyError(f, src, dst) ==
    IF src \notin DOMAIN SrcTree THEN FileNotFound
    ELSE IF SrcTree[src].kind = "dir" THEN IsADirectory
    ELSE OpenWriteError(f, CopyDst(f, src, dst))

\* a copy that leaves an existing destination file as it is
Copy_keep(f, src, dst) ==
    IF Exists(f, CopyDst(f, src, dst)) THEN f
    ELSE WriteFile(f, CopyDst(f, src, dst), SrcTree[src])

Copy(f, src, dst) == WriteFile(f, CopyDst(f, src, dst), SrcTree[src])

\* shutil.copytree(src, dst): dst must not exist; every node below src is
\* copied to the same relative path below dst
CopytreeError(f, src, dst) ==
    IF Exists(f, dst) THEN FileExists
    ELSE IF \E q \in Prefixes(dst) : IsFileAt(f, q) THEN NotADirectory
    ELSE NoError

IsBelow(src, p) == Len(p) >= Len(src) /\ SubSeq(p, 1, Len(src)) = src
Relative(src, p) == SubSeq(p, Len(src) + 1, Len(p))

Copytree(f, src, dst) ==
    LET copied == {p \in DOMAIN SrcTree : IsBelow(src, p)}
        target(p) == Join(dst, Relative(src, p))
        new == {target(p) : p \in copied}
    IN  [q \in DOMAIN f \cup Prefixes(dst) \cup new |->
            IF q \in new
            THEN SrcTree[CHOOSE p \in copied : target(p) = q]
            ELSE IF q \in DOMAIN f THEN f[q] ELSE Dir]

----------------------------------------------------------------------------
(* What a call leaves behind *)

Outcome(f, e) == [fs |-> f, raised |-> e]

Call(op, e) == [op |-> op, raised |-> e]

NoCall == Call("", NoError)

\* a call that starts from an empty dict whether or not the file exists
LoadDocument_empty(f, path) == EmptyDict

\* `if os.path.exists(path): json.load(f)  else: {}`
LoadDocument(f, path) == IF Exists(f, path) THEN LoadDoc(f[path].doc) ELSE EmptyDict

\* The read-modify-write of metrics.json / parameters.json: load the document
\* if the file exists, append `value` to the list under `key`, write it back.
\* The code is the same in LocalBackend.log_metric, LocalBackend.log_parameter,
\* LocalRun.log_metric and LocalRun.log_parameter.
AppendToDocument(f, path, key, value) ==
    IF Exists(f, path) /\ OpenReadError(f, path) # NoError
    THEN Outcome(f, OpenReadError(f, path))
    ELSE IF Exists(f, path) /\ f[path].fmt # "json"
    THEN Outcome(f, JSONDecodeError)
    ELSE LET loaded == LoadDocument(f, path)
             updated == SetDefaultAppend(loaded, key, value)
         IN  IF OpenWriteError(f, path) # NoError
             THEN Outcome(f, OpenWriteError(f, path))
             ELSE Outcome(WriteFile(f, path, JsonFile(DumpDoc(updated))), NoError)

Requirements == PyList(<<PyStr("numpy==1.18.1")>>)
PythonVersion == PyStr("3.7.6")

EnvironmentInfos ==
    SetItem(SetItem(EmptyDict, "requirements", Requirements), "python", PythonVersion)

\* a log_environnment that clears the run's directory before writing meta.json
log_environnment_cleared(f, path, fail) ==
    IF fail # "no" \/ MakedirsError(f, path) # NoError
    THEN Outcome(f, IF fail # "no" THEN EnvironmentFailure ELSE MakedirsError(f, path))
    ELSE LET kept == {p \in DOMAIN f : ~(Len(p) > Len(path) /\ SubSeq(p, 1, Len(path)) = path)}
             emptied == [p \in kept |-> f[p]]
         IN  Outcome(WriteFile(Makedirs(emptied, path), Join(path, <<"meta.json">>),
                               JsonFile(DumpDoc(EnvironmentInfos))), NoError)

\* utils.log_environnment(path): pip freeze and the interpreter version,
\* written to <path>/meta.json.  `fail` is where the environment makes it
\* fail: "no" (it succeeds), "freeze" (pip cannot be imported or run, before
\* anything is written) or "open" (meta.json cannot be written).
log_environnment(f, path, fail) ==
    IF fail = "freeze" THEN Outcome(f, EnvironmentFailure)
    ELSE IF MakedirsError(f, path) # NoError THEN Outcome(f, MakedirsError(f, path))
    ELSE LET made == Makedirs(f, path)
             meta == Join(path, <<"meta.json">>)
         IN  IF fail = "open" THEN Outcome(made, EnvironmentFailure)
             ELSE IF OpenWriteError(made, meta) # NoError
             THEN Outcome(made, OpenWriteError(made, meta))
             ELSE Outcome(WriteFile(made, meta, JsonFile(DumpDoc(EnvironmentInfos))), NoError)

EnvFailures == {"no", "freeze", "open"}

----------------------------------------------------------------------------
(* The inputs the calls are made with *)

ExperimentName == "DefaultExperiment"
RunIdArgs == {None, PyInt("0"), PyInt("1")}
MetricNames == {"mse", "loss"}
MetricValues == {PyInt("5"), PyFloat("3.5"), PyStr("adam"), None}
ParameterValues == {PyFloat("0.05"), PyStr("adam")}
OutputDirs == {"models"}
SklearnVersion == PyStr("0.22.1")

\* str(datetime.now()) at the given reading of the clock
Now(k) == PyStr("time-" \o ToString(k))

----------------------------------------------------------------------------
(* backends.py: LocalBackend *)

\* LocalBackend.__init__: _path is <root>/mlruns, the root of the tree
LocalBackend_init == [_path |-> <<>>, _run_started |-> PyInt("0")]

\* the decorated method is called whatever _run_started is
if_run_active_unguarded(self, f, out) == out

\* the decorator if_run_active: the method runs only when _run_started is truthy
if_run_active(self, f, out) ==
    IF Truthy(self._run_started) THEN out ELSE Outcome(f, RunNotActive)

LocalBackend_run_path(self) == Join(self._path, <<Str(self._run_started)>>)

\* log_metric without its isinstance(value, str) test
LocalBackend_log_metric_unchecked(f, self, metric, value) ==
    AppendToDocument(f, Join(LocalBackend_run_path(self), <<"metrics.json">>),
                     metric, value)

LocalBackend_log_metric_body(f, self, metric, value) ==
    IF IsInstanceStr(value) THEN Outcome(f, InvalidMetricType)
    ELSE AppendToDocument(f, Join(LocalBackend_run_path(self), <<"metrics.json">>),
                          metric, value)

LocalBackend_log_parameter_body(f, self, parameter, value) ==
    AppendToDocument(f, Join(LocalBackend_run_path(self), <<"parameters.json">>),
                     parameter, value)

\* a log_artifact that copies next to the documents, not below artifacts/
LogArtifact_flat(f, root, path_to_file, path_to_save) ==
    LET src == PathOf(path_to_file)
        path == Join(root, Basename(src))
    IN  IF CopyError(f, src, path) # NoError THEN Outcome(f, CopyError(f, src, path))
        ELSE Outcome(Copy(f, src, path), NoError)

\* The body of log_artifact, the same in LocalBackend and LocalRun but for
\* the run's directory `root`
LogArtifact(f, root, path_to_file, path_to_save) ==
    LET src == PathOf(path_to_file)
        name == IF Truthy(path_to_save)
                THEN Join(PathOf(Str(path_to_save)), Basename(src))
                ELSE Basename(src)
        path == Join(Join(root, <<"artifacts">>), name)
    IN  IF MakedirsError(f, Dirname(path)) # NoError
        THEN Outcome(f, MakedirsError(f, Dirname(path)))
        ELSE LET made == Makedirs(f, Dirname(path))
             IN  IF CopyError(made, src, path) # NoError
                 THEN Outcome(made, CopyError(made, src, path))
                 ELSE Outcome(Copy(made, src, path), NoError)

LocalBackend_log_artifact_body(f, self, path_to_file, path_to_save) ==
    LogArtifact(f, LocalBackend_run_path(self), path_to_file, path_to_save)

\* _get_metadata / _save_metadata on <root>/meta.json
GetMetadataError(f, root) ==
    LET p == Join(root, <<"meta.json">>)
    IN  IF OpenReadError(f, p) # NoError THEN OpenReadError(f, p)
        ELSE IF f[p].fmt # "json" THEN JSONDecodeError
        ELSE NoError

\* a log_model that starts from an empty dict instead of the stored metadata
GetMetadata_fresh(f, root) == EmptyDict

GetMetadata(f, root) == LoadDoc(f[Join(root, <<"meta.json">>)].doc)

SaveMetadata(f, root, new_metadata) ==
    LET p == Join(root, <<"meta.json">>)
    IN  IF OpenWriteError(f, p) # NoError THEN Outcome(f, OpenWriteError(f, p))
        ELSE Outcome(WriteFile(f, p, JsonFile(DumpDoc(new_metadata))), NoError)

\* a validation that forgets that load_entry_point is mandatory
PyfuncArgumentError_no_entry_point(model, load_entry_point) ==
    IF ~IsInstanceStr(model) THEN InvalidModelSource ELSE NoError

\* log_model, PYFUNC branch: the two tests made before anything is copied
PyfuncArgumentError(model, load_entry_point) ==
    IF ~IsInstanceStr(model) THEN InvalidModelSource
    ELSE IF ~Truthy(load_entry_point) THEN MissingEntryPoint
    ELSE NoError

\* pickle.dump(model, f): an object pickle cannot serialise, such as a lambda,
\* makes it raise after model.pkl was opened for writing
Unpicklable == PyObject("lambda")
PickleError(model) == IF model = Unpicklable THEN PicklingError ELSE NoError

\* a log_model that writes meta.json as soon as it has read it, before the
\* model is validated and persisted
LogModel_save_first(f, root, model, output_dir, library, load_entry_point, now) ==
    LET path == Join(Join(root, <<"artifacts">>), PathOf(output_dir))
    IN
    IF MakedirsError(f, path) # NoError THEN Outcome(f, MakedirsError(f, path))
    ELSE
    IF GetMetadataError(Makedirs(f, path), root) # NoError
    THEN Outcome(Makedirs(f, path), GetMetadataError(Makedirs(f, path), root))
    ELSE
    LET metadata == SetItem(GetMetadata(Makedirs(f, path), root), "updateTime", Now(now))
        made == SaveMetadata(Makedirs(f, path), root, metadata).fs
        finish(g, md) == SaveMetadata(g, root, md)
    IN
    CASE library = "SCIKIT_LEARN" ->
            LET pkl == Join(path, <<"model.pkl">>)
                md == SetItem(metadata, "scikit-learn", SklearnVersion)
            IN  IF OpenWriteError(made, pkl) # NoError
                THEN Outcome(made, OpenWriteError(made, pkl))
                ELSE IF PickleError(model) # NoError
                THEN Outcome(WriteFile(made, pkl, DataFile("")), PickleError(model))
                ELSE finish(WriteFile(made, pkl, DataFile("pickle:" \o Str(model))), md)
      [] library = "PYFUNC" ->
            IF PyfuncArgumentError(model, load_entry_point) # NoError
            THEN Outcome(made, PyfuncArgumentError(model, load_entry_point))
            ELSE
            LET md == SetItem(metadata, "loadEntryPoint", load_entry_point)
                data == Join(path, <<"data">>)
                src == PathOf(Str(model))
            IN  IF src \in DOMAIN SrcTree /\ SrcTree[src].kind = "dir"
                THEN LET dst == Join(data, Basename(src))
                     IN  IF CopytreeError(made, src, dst) # NoError
                         THEN Outcome(made, CopytreeError(made, src, dst))
                         ELSE finish(Copytree(made, src, dst), md)
                ELSE IF CopyError(made, src, data) # NoError
                     THEN Outcome(made, CopyError(made, src, data))
                     ELSE finish(Copy(made, src, data), md)
      [] OTHER -> finish(made, metadata)

\* The body of log_model, the same in LocalBackend and LocalRun but for the
\* run's directory `root`; `now` is the reading of the clock
LogModel(f, root, model, output_dir, library, load_entry_point, now) ==
    LET path == Join(Join(root, <<"artifacts">>), PathOf(output_dir))
    IN
    IF MakedirsError(f, path) # NoError THEN Outcome(f, MakedirsError(f, path))
    ELSE
    LET made == Makedirs(f, path)
    IN
    IF GetMetadataError(made, root) # NoError
    THEN Outcome(made, GetMetadataError(made, root))
    ELSE
    LET metadata == GetMetadata(made, root)
        finish(g, md) == SaveMetadata(g, root, SetItem(md, "updateTime", Now(now)))
    IN
    CASE library = "SCIKIT_LEARN" ->
            LET pkl == Join(path, <<"model.pkl">>)
                md == SetItem(metadata, "scikit-learn", SklearnVersion)
            IN  IF OpenWriteError(made, pkl) # NoError
                THEN Outcome(made, OpenWriteError(made, pkl))
                ELSE IF PickleError(model) # NoError
                THEN Outcome(WriteFile(made, pkl, DataFile("")), PickleError(model))
                ELSE finish(WriteFile(made, pkl, DataFile("pickle:" \o Str(model))), md)
      [] library = "PYFUNC" ->
            IF PyfuncArgumentError(model, load_entry_point) # NoError
            THEN Outcome(made, PyfuncArgumentError(model, load_entry_point))
            ELSE
            LET md == SetItem(metadata, "loadEntryPoint", load_entry_point)
                data == Join(path, <<"data">>)
                src == PathOf(Str(model))
            IN  IF src \in DOMAIN SrcTree /\ SrcTree[src].kind = "dir"
                THEN LET dst == Join(data, Basename(src))
                     IN  IF CopytreeError(made, src, dst) # NoError
                         THEN Outcome(made, CopytreeError(made, src, dst))
                         ELSE finish(Copytree(made, src, dst), md)
                ELSE IF CopyError(made, src, data) # NoError
                     THEN Outcome(made, CopyError(made, src, data))
                     ELSE finish(Copy(made, src, data), md)
      [] OTHER -> finish(made, metadata)

LocalBackend_log_model_body(f, self, model, output_dir, library, load_entry_point, now) ==
    LogModel(f, LocalBackend_run_path(self), model, output_dir, library,
             load_entry_point, now)

\* with_hooks is not executing: the object can be called
Idle == ~call.active

NoWrapper ==
    [active |-> FALSE, op |-> "", event |-> "", status |-> "",
     message |-> None, error |-> NoError, i |-> 1]

\* `logged` after a log call on the document at `path` returned normally
Record(lg, path, key, value, e) ==
    IF e # NoError THEN lg
    ELSE LET old == IF path \in DOMAIN lg THEN lg[path] ELSE <<>>
             seq == IF key \in DOMAIN old THEN old[key] ELSE <<>>
         IN  (path :> ((key :> Append(seq, value)) @@ old)) @@ lg

LocalBackend_log_metric(metric, value) ==
    /\ cls = "LocalBackend" /\ ops < MaxOps
    /\ LET out == if_run_active(backend, fs,
                      LocalBackend_log_metric_body(fs, backend, metric, value))
       IN  /\ fs' = out.fs
           /\ result' = Call("log_metric", out.raised)
           /\ logged' = Record(logged, Join(LocalBackend_run_path(backend), <<"metrics.json">>),
                               metric, value, out.raised)
    /\ ops' = ops + 1
    /\ UNCHANGED <<clientVars, cls, backend, blocks, run, call, sent, uuids, starts, clock>>

LocalBackend_log_parameter(parameter, value) ==
    /\ cls = "LocalBackend" /\ ops < MaxOps
    /\ LET out == if_run_active(backend, fs,
                      LocalBackend_log_parameter_body(fs, backend, parameter, value))
       IN  /\ fs' = out.fs
           /\ result' = Call("log_parameter", out.raised)
           /\ logged' = Record(logged, Join(LocalBackend_run_path(backend), <<"parameters.json">>),
                               parameter, value, out.raised)
    /\ ops' = ops + 1
    /\ UNCHANGED <<clientVars, cls, backend, blocks, run, call, sent, uuids, starts, clock>>

LocalBackend_log_artifact(path_to_file, path_to_save) ==
    /\ cls = "LocalBackend" /\ ops < MaxOps
    /\ LET out == if_run_active(backend, fs,
                      LocalBackend_log_artifact_body(fs, backend, path_to_file, path_to_save))
       IN  /\ fs' = out.fs
           /\ result' = Call("log_artifact", out.raised)
    /\ ops' = ops + 1
    /\ UNCHANGED <<clientVars, cls, backend, blocks, run, call, sent, logged, uuids, starts, clock>>

LocalBackend_log_model(model, output_dir, library, load_entry_point) ==
    /\ cls = "LocalBackend" /\ ops < MaxOps
    /\ LET out == if_run_active(backend, fs,
                      LocalBackend_log_model_body(fs, backend, model, output_dir, library,
                                                  load_entry_point, clock + 1))
       IN  /\ fs' = out.fs
           /\ result' = Call("log_model", out.raised)
    /\ clock' = clock + 1
    /\ ops' = ops + 1
    /\ UNCHANGED <<clientVars, cls, backend, blocks, run, call, sent, logged, uuids, starts>>

\* `with backend.start_run(run_id):` up to the yield.  The id is stored before
\* anything can fail; an exception leaves the with statement before the block
\* is entered, so its finally clause never runs.
LocalBackend_start_run_id(run_id) == PyOr(run_id, uuid1)

LocalBackend_start_run(run_id, fail) ==
    /\ cls = "LocalBackend" /\ blocks < MaxNest /\ starts < MaxStarts
    /\ LET started == [backend EXCEPT !._run_started = LocalBackend_start_run_id(run_id)]
           out == IF started._run_started = PyInt("0")
                  THEN Outcome(fs, InvalidRunId)
                  ELSE log_environnment(fs, LocalBackend_run_path(started), fail)
       IN  /\ backend' = started
           /\ fs' = out.fs
           /\ result' = Call("start_run", out.raised)
           /\ blocks' = IF out.raised = NoError THEN blocks + 1 ELSE blocks
    /\ uuids' = IF Truthy(run_id) THEN uuids ELSE uuids + 1
    /\ starts' = starts + 1
    /\ UNCHANGED <<clientVars, cls, run, call, sent, logged, clock, ops>>

\* an end_run that leaves _run_started as it is
LocalBackend_end_run_noop(self) == self

\* LocalBackend.end_run, itself under if_run_active
LocalBackend_end_run_body(self) == [self EXCEPT !._run_started = PyInt("0")]

LocalBackend_end_run ==
    /\ cls = "LocalBackend"
    /\ backend' = IF Truthy(backend._run_started)
                  THEN LocalBackend_end_run_body(backend) ELSE backend
    /\ result' = Call("end_run", if_run_active(backend, fs, Outcome(fs, NoError)).raised)
    /\ UNCHANGED <<clientVars, cls, fs, blocks, run, call, sent, logged, uuids, starts, clock, ops>>

\* leaving a `with backend.start_run(..)` block, normally or by an exception:
\* the finally clause calls end_run
LocalBackend_exit ==
    /\ cls = "LocalBackend" /\ blocks > 0
    /\ backend' = IF Truthy(backend._run_started)
                  THEN LocalBackend_end_run_body(backend) ELSE backend
    /\ result' = Call("exit", if_run_active(backend, fs, Outcome(fs, NoError)).raised)
    /\ blocks' = blocks - 1
    /\ UNCHANGED <<clientVars, cls, fs, run, call, sent, logged, uuids, starts, clock, ops>>

----------------------------------------------------------------------------
(* core.py: the earlier LocalBackend, which the tests were written for *)

\* core.log_environnment(path): infos['requirements'] is the generator
\* freeze.freeze() itself, not a list of it, so json.dump writes the opening
\* of the object and raises TypeError
core_log_environnment(f, path) ==
    IF MakedirsError(f, path) # NoError THEN Outcome(f, MakedirsError(f, path))
    ELSE LET made == Makedirs(f, path)
             meta == Join(path, <<"meta.json">>)
         IN  IF OpenWriteError(made, meta) # NoError
             THEN Outcome(made, OpenWriteError(made, meta))
             ELSE Outcome(WriteFile(made, meta, DataFile("{\"requirements\": ")),
                          NotSerializable)

\* core.LocalBackend.log_metric / log_parameter: document[key] = value
core_SetInDocument(f, path, key, value) ==
    IF Exists(f, path) /\ OpenReadError(f, path) # NoError
    THEN Outcome(f, OpenReadError(f, path))
    ELSE IF Exists(f, path) /\ f[path].fmt # "json" THEN Outcome(f, JSONDecodeError)
    ELSE LET updated == SetItem(LoadDocument(f, path), key, value)
         IN  IF OpenWriteError(f, path) # NoError
             THEN Outcome(f, OpenWriteError(f, path))
             ELSE Outcome(WriteFile(f, path, JsonFile(DumpDoc(updated))), NoError)

core_LocalBackend_log_metric(metric, value) ==
    /\ cls = "core.LocalBackend" /\ ops < MaxOps
    /\ LET out == if_run_active(backend, fs,
                      core_SetInDocument(fs, Join(LocalBackend_run_path(backend),
                                                  <<"metrics.json">>), metric, value))
       IN  /\ fs' = out.fs
           /\ result' = Call("log_metric", out.raised)
    /\ ops' = ops + 1
    /\ UNCHANGED <<clientVars, cls, backend, blocks, run, call, sent, logged, uuids, starts,
                   clock>>

core_LocalBackend_log_parameter(parameter, value) ==
    /\ cls = "core.LocalBackend" /\ ops < MaxOps
    /\ LET out == if_run_active(backend, fs,
                      core_SetInDocument(fs, Join(LocalBackend_run_path(backend),
                                                  <<"parameters.json">>), parameter, value))
       IN  /\ fs' = out.fs
           /\ result' = Call("log_parameter", out.raised)
    /\ ops' = ops + 1
    /\ UNCHANGED <<clientVars, cls, backend, blocks, run, call, sent, logged, uuids, starts,
                   clock>>

\* `with backend.start_run(run_id):` up to the yield
core_LocalBackend_start_run(run_id) ==
    /\ cls = "core.LocalBackend" /\ blocks < MaxNest /\ starts < MaxStarts
    /\ LET started == [backend EXCEPT !._run_started = PyOr(run_id, uuid1)]
           out == core_log_environnment(fs, LocalBackend_run_path(started))
       IN  /\ backend' = started
           /\ fs' = out.fs
           /\ result' = Call("start_run", out.raised)
           /\ blocks' = IF out.raised = NoError THEN blocks + 1 ELSE blocks
    /\ uuids' = IF Truthy(run_id) THEN uuids ELSE uuids + 1
    /\ starts' = starts + 1
    /\ UNCHANGED <<clientVars, cls, run, call, sent, logged, clock, ops>>

\* core.LocalBackend.end_run, under if_run_active
core_LocalBackend_end_run ==
    /\ cls = "core.LocalBackend"
    /\ backend' = IF Truthy(backend._run_started)
                  THEN LocalBackend_end_run_body(backend) ELSE backend
    /\ result' = Call("end_run", if_run_active(backend, fs, Outcome(fs, NoError)).raised)
    /\ UNCHANGED <<clientVars, cls, fs, blocks, run, call, sent, logged, uuids, starts, clock,
                   ops>>

----------------------------------------------------------------------------
(* hooks.py: the registered hooks, send_hook and with_hooks *)

Urls == {"http://a/hooks", "http://b/hooks"}

\* event.name.lower()
Lower(event) == IF event = "RUN_STARTED" THEN "run_started" ELSE "run_ended"

HookEntry(url) == [name |-> "hook", url |-> url]

\* self._hooks: None (the default of LocalRun.__init__) or a dict from the
\* lower-case event name to the list of hooks
NoHooks == [isNone |-> TRUE, map |-> <<>>]
HooksDict(m) == [isNone |-> FALSE, map |-> m]
EmptyHooks == HooksDict(<<>>)

\* send_hook: the JSON body and the URL it is POSTed to (the timestamp, a
\* reading of the wall clock, is left out); `delivered` is whether
\* requests.post returned or raised
Notification(action, experiment_name, run_id, url, status, message, delivered) ==
    [url |-> url, event |-> action, status |-> status,
     payload |-> [experiment |-> experiment_name, run |-> Str(run_id),
                  message |-> message],
     delivered |-> delivered]

----------------------------------------------------------------------------
(* hooks.py: resolve_hooks.  What a URI string denotes is fixed by the world  *)
(* outside the program: the web, and the files of the working directory.     *)

UrlHooks == HooksDict([run_started |-> <<HookEntry("http://a/hooks")>>])
ProjectHooks == HooksDict([run_ended |-> <<HookEntry("http://a/hooks")>>])
FileHooks ==
    HooksDict([run_started |-> <<HookEntry("http://b/hooks")>>,
               run_ended |-> <<HookEntry("http://b/hooks")>>])

\* "url": requests.get returns a response whose body is a JSON hooks document;
\* "down": a URL nothing answers at; "project": a directory whose MLproject
\* has a hooks key; "nohooks": a directory whose MLproject has none; "bare": a
\* directory without MLproject; "json": a JSON file; "text": a file that is
\* not JSON; "nothing": no URL and no path, the empty string among them
Denotes(uri) ==
    CASE uri = "http://conf/hooks" -> "url"
      [] uri = "http://down/hooks" -> "down"
      [] uri = "project" -> "project"
      [] uri = "nohooks" -> "nohooks"
      [] uri = "bare" -> "bare"
      [] uri = "hooks.json" -> "json"
      [] uri = "notes.txt" -> "text"
      [] OTHER -> "nothing"

NoMLproject ==
    Exc("FileNotFoundError", "Hooks URI provided is a directory, but no MLproject file found")
HooksUriNotRecognized ==
    Exc("ValueError", "Hooks URI provided not recognized as a valid url, folder or file")
HooksKeyError == Exc("KeyError", "'hooks'")

Resolved(hooks, e) == [hooks |-> hooks, raised |-> e]

\* requests.get(uri) raises a RequestException: the URI has no http schema
\* (a path, the empty string) or nothing answers
RequestFails(uri) == Denotes(uri) # "url"

\* resolve_hooks(hooks_uri) in the environment e
resolve_hooks(hooks_uri, e) ==
    IF ~Truthy(hooks_uri) /\ e.MLFLOW_HOOKS_URI = None THEN Resolved(EmptyHooks, NoError)
    ELSE LET uri == IF ~Truthy(hooks_uri) THEN Str(e.MLFLOW_HOOKS_URI) ELSE Str(hooks_uri)
             what == Denotes(uri)
         IN  IF ~RequestFails(uri) THEN Resolved(UrlHooks, NoError)
             ELSE IF what \in {"project", "nohooks", "bare"}
             THEN IF what = "bare" THEN Resolved(NoHooks, NoMLproject)
                  ELSE IF what = "nohooks" THEN Resolved(NoHooks, HooksKeyError)
                  ELSE Resolved(ProjectHooks, NoError)
             ELSE IF what \in {"json", "text"}
             THEN IF what = "text" THEN Resolved(NoHooks, JSONDecodeError)
                  ELSE Resolved(FileHooks, NoError)
             ELSE Resolved(NoHooks, HooksUriNotRecognized)

----------------------------------------------------------------------------
(* runs.py: LocalRun *)

LocalRun_init(hooks) ==
    [_hooks |-> hooks, _run_id |-> None, _run_started |-> PyBool("False"),
     _experiment_name |-> ExperimentName, _path |-> <<ExperimentName>>]

LocalRun_log_metric_body(f, self, metric, value) ==
    IF IsInstanceStr(value) THEN Outcome(f, InvalidMetricType)
    ELSE AppendToDocument(f, Join(self._path, <<"metrics.json">>), metric, value)

LocalRun_log_parameter_body(f, self, parameter, value) ==
    AppendToDocument(f, Join(self._path, <<"parameters.json">>), parameter, value)

LocalRun_log_artifact_body(f, self, path_to_file, path_to_save) ==
    LogArtifact(f, self._path, path_to_file, path_to_save)

LocalRun_log_model_body(f, self, model, output_dir, library, load_entry_point, now) ==
    LogModel(f, self._path, model, output_dir, library, load_entry_point, now)

LocalRun_log_metric(metric, value) ==
    /\ cls = "LocalRun" /\ Idle /\ ops < MaxOps
    /\ LET out == LocalRun_log_metric_body(fs, run, metric, value)
       IN  /\ fs' = out.fs
           /\ result' = Call("log_metric", out.raised)
           /\ logged' = Record(logged, Join(run._path, <<"metrics.json">>),
                               metric, value, out.raised)
    /\ ops' = ops + 1
    /\ UNCHANGED <<clientVars, cls, backend, blocks, run, call, sent, uuids, starts, clock>>

LocalRun_log_parameter(parameter, value) ==
    /\ cls = "LocalRun" /\ Idle /\ ops < MaxOps
    /\ LET out == LocalRun_log_parameter_body(fs, run, parameter, value)
       IN  /\ fs' = out.fs
           /\ result' = Call("log_parameter", out.raised)
           /\ logged' = Record(logged, Join(run._path, <<"parameters.json">>),
                               parameter, value, out.raised)
    /\ ops' = ops + 1
    /\ UNCHANGED <<clientVars, cls, backend, blocks, run, call, sent, uuids, starts, clock>>

LocalRun_log_artifact(path_to_file, path_to_save) ==
    /\ cls = "LocalRun" /\ Idle /\ ops < MaxOps
    /\ LET out == LocalRun_log_artifact_body(fs, run, path_to_file, path_to_save)
       IN  /\ fs' = out.fs
           /\ result' = Call("log_artifact", out.raised)
    /\ ops' = ops + 1
    /\ UNCHANGED <<clientVars, cls, backend, blocks, run, call, sent, logged, uuids, starts, clock>>

LocalRun_log_model(model, output_dir, library, load_entry_point) ==
    /\ cls = "LocalRun" /\ Idle /\ ops < MaxOps
    /\ LET out == LocalRun_log_model_body(fs, run, model, output_dir, library,
                                          load_entry_point, clock + 1)
       IN  /\ fs' = out.fs
           /\ result' = Call("log_model", out.raised)
    /\ clock' = clock + 1
    /\ ops' = ops + 1
    /\ UNCHANGED <<clientVars, cls, backend, blocks, run, call, sent, logged, uuids, starts>>

\* The body of LocalRun.start_run: the fields are assigned before
\* log_environnment can fail
LocalRun_start_run_body(self, run_id) ==
    LET id == PyOr(run_id, uuid1)
    IN  [self EXCEPT !._run_id = id,
                     !._run_started = PyBool("True"),
                     !._path = Join(self._path, <<Str(id)>>)]

\* an end_run that leaves _run_started as it is
LocalRun_end_run_noop(self) == self

\* The body of LocalRun.end_run
LocalRun_end_run_body(self) == [self EXCEPT !._run_started = PyBool("False")]

\* with_hooks.wrapper, first part: the wrapped method has run, and status,
\* message and error are set from how it ended
Wrapped(op, event, e) ==
    [active |-> TRUE, op |-> op, event |-> event,
     status |-> IF e = NoError THEN "success" ELSE "failed",
     message |-> IF e = NoError THEN None ELSE PyStr(e.msg),
     error |-> e, i |-> 1]

LocalRun_start_run(run_id, fail) ==
    /\ cls = "LocalRun" /\ Idle /\ starts < MaxStarts
    /\ LET started == LocalRun_start_run_body(run, run_id)
           out == log_environnment(fs, started._path, fail)
       IN  /\ run' = started
           /\ fs' = out.fs
           /\ call' = Wrapped("start_run", "RUN_STARTED", out.raised)
    /\ sent' = <<>>
    /\ uuids' = IF Truthy(run_id) THEN uuids ELSE uuids + 1
    /\ starts' = starts + 1
    /\ UNCHANGED <<clientVars, cls, backend, blocks, logged, result, clock, ops>>

LocalRun_end_run ==
    /\ cls = "LocalRun" /\ Idle
    /\ run' = LocalRun_end_run_body(run)
    /\ call' = Wrapped("end_run", "RUN_ENDED", NoError)
    /\ sent' = <<>>
    /\ UNCHANGED <<clientVars, cls, fs, backend, blocks, logged, result, uuids, starts, clock, ops>>

\* `with run:` - __enter__ returns the object and starts nothing
LocalRun_enter ==
    /\ cls = "LocalRun" /\ Idle /\ blocks < MaxNest
    /\ blocks' = blocks + 1
    /\ UNCHANGED <<clientVars, cls, fs, backend, run, call, sent, logged, result, uuids,
                   starts, clock, ops>>

\* leaving the `with run:` block, normally or by an exception: __exit__ calls
\* the wrapped end_run
LocalRun_exit ==
    /\ cls = "LocalRun" /\ Idle /\ blocks > 0
    /\ run' = LocalRun_end_run_body(run)
    /\ call' = Wrapped("__exit__", "RUN_ENDED", NoError)
    /\ sent' = <<>>
    /\ blocks' = blocks - 1
    /\ UNCHANGED <<clientVars, cls, fs, backend, logged, result, uuids, starts, clock, ops>>

\* a fresh LocalRun for the same base path and experiment, with the same hooks
LocalRun_new ==
    /\ cls = "LocalRun" /\ Idle /\ blocks = 0
    /\ run # LocalRun_init(run._hooks)
    /\ run' = LocalRun_init(run._hooks)
    /\ UNCHANGED <<clientVars, cls, fs, backend, blocks, call, sent, logged, result, uuids,
                   starts, clock, ops>>

\* with_hooks.wrapper, the loop over self._hooks[event.name.lower()]
HooksFor(self, event) ==
    IF Lower(event) \in DOMAIN self._hooks.map THEN self._hooks.map[Lower(event)] ELSE <<>>

\* One iteration: send_hook POSTs to the next hook's url.  requests.post
\* returns, or raises because the endpoint cannot be reached; nothing in
\* send_hook or in the wrapper catches what it raises.
SendHookRaises(delivered) == IF delivered THEN NoError ELSE ConnectionError

WithHooks_send(delivered) ==
    /\ call.active /\ ~run._hooks.isNone
    /\ call.i <= Len(HooksFor(run, call.event))
    /\ LET hook == HooksFor(run, call.event)[call.i]
           n == Notification(call.event, run._experiment_name, run._run_id,
                             hook.url, call.status, call.message, delivered)
       IN  /\ sent' = Append(sent, n)
           /\ IF SendHookRaises(delivered) = NoError
              THEN /\ call' = [call EXCEPT !.i = call.i + 1]
                   /\ UNCHANGED result
              ELSE /\ call' = [call EXCEPT !.active = FALSE]
                   /\ result' = Call(call.op, SendHookRaises(delivered))
    /\ UNCHANGED <<clientVars, cls, fs, backend, blocks, run, logged, uuids, starts, clock, ops>>

\* The end of the wrapper: `event.name.lower() in self._hooks` raises when
\* _hooks is None; after the loop the wrapped method's error is raised
WithHooks_raised(self, c) ==
    IF self._hooks.isNone THEN HooksNotIterable ELSE c.error

WithHooks_return ==
    /\ call.active
    /\ run._hooks.isNone \/ call.i > Len(HooksFor(run, call.event))
    /\ call' = [call EXCEPT !.active = FALSE]
    /\ result' = Call(call.op, WithHooks_raised(run, call))
    /\ UNCHANGED <<clientVars, cls, fs, backend, blocks, run, sent, logged, uuids, starts, clock, ops>>

----------------------------------------------------------------------------
(* runs.py: LocalRun.log_metric / log_parameter called by two processes, each *)
(* with its own LocalRun started with the same run_id: the statements of one  *)
(* call, which the operating system interleaves with the other process's.    *)

RaceProcs == {1, 2}
RaceRunId == PyInt("1")
RaceDocuments == {"metrics.json", "parameters.json"}
RaceOp(doc) == IF doc = "metrics.json" THEN "log_metric" ELSE "log_parameter"
RaceKey(doc) == IF doc = "metrics.json" THEN "mse" ELSE "alpha"
RaceValue(p) == IF p = 1 THEN PyFloat("3.5") ELSE PyInt("5")

\* a process: "new" before its start_run, "idle" between calls, "loaded"
\* after the document was read, "opened" after open(path, 'w') truncated it
Proc(pc, doc, loaded) == [pc |-> pc, doc |-> doc, loaded |-> loaded]
NoProcs == [at |-> [p \in RaceProcs |-> Proc("new", "", EmptyDict)], overlapped |-> FALSE]

\* the LocalRun of each process once started: equal objects in two processes
RacingRun == LocalRun_start_run_body(LocalRun_init(EmptyHooks), RaceRunId)

\* a file just opened for writing: empty, which json.load cannot decode
Truncated == DataFile("")

\* LocalRun(..).start_run(1) in process p
Race_start(p) ==
    /\ cls = "LocalRun" /\ procs.at[p].pc = "new"
    /\ run' = RacingRun
    /\ fs' = log_environnment(fs, RacingRun._path, "no").fs
    /\ procs' = [procs EXCEPT !.at[p].pc = "idle"]
    /\ starts' = starts + 1
    /\ UNCHANGED <<cls, backend, blocks, call, sent, logged, result, uuids, clock, ops,
                   client, dropped, env, mlflow>>

\* the call begins: os.path.exists(path) and json.load of the document
Race_load(p, doc) ==
    /\ cls = "LocalRun" /\ procs.at[p].pc = "idle" /\ ops < MaxOps
    /\ LET path == Join(RacingRun._path, <<doc>>)
           busy == \E q \in RaceProcs \ {p} : procs.at[q].pc \in {"loaded", "opened"}
       IN  IF Exists(fs, path) /\ fs[path].fmt # "json"
           THEN /\ result' = Call(RaceOp(doc), JSONDecodeError)
                /\ procs' = [procs EXCEPT !.overlapped = TRUE]
           ELSE /\ procs' = [procs EXCEPT
                               !.at[p] = Proc("loaded", doc, LoadDocument(fs, path)),
                               !.overlapped = procs.overlapped \/ busy]
                /\ UNCHANGED result
    /\ ops' = ops + 1
    /\ UNCHANGED <<cls, fs, backend, blocks, run, call, sent, logged, uuids, starts, clock,
                   client, dropped, env, mlflow>>

\* open(path, 'w')
Race_open(p) ==
    /\ cls = "LocalRun" /\ procs.at[p].pc = "loaded"
    /\ fs' = WriteFile(fs, Join(RacingRun._path, <<procs.at[p].doc>>), Truncated)
    /\ procs' = [procs EXCEPT !.at[p].pc = "opened"]
    /\ UNCHANGED <<cls, backend, blocks, run, call, sent, logged, result, uuids, starts, clock,
                   ops, client, dropped, env, mlflow>>

\* json.dump of the loaded document with the value appended; the call returns
Race_dump(p) ==
    /\ cls = "LocalRun" /\ procs.at[p].pc = "opened"
    /\ LET doc == procs.at[p].doc
           path == Join(RacingRun._path, <<doc>>)
           updated == SetDefaultAppend(procs.at[p].loaded, RaceKey(doc), RaceValue(p))
       IN  /\ fs' = WriteFile(fs, path, JsonFile(DumpDoc(updated)))
           /\ logged' = Record(logged, path, RaceKey(doc), RaceValue(p), NoError)
           /\ result' = Call(RaceOp(doc), NoError)
    /\ procs' = [procs EXCEPT !.at[p] = Proc("idle", "", EmptyDict)]
    /\ UNCHANGED <<cls, backend, blocks, run, call, sent, uuids, starts, clock, ops,
                   client, dropped, env, mlflow>>

----------------------------------------------------------------------------
(* runs.py: MLFlowRun, as far as the client uses it.  mlflow is the library: *)
(* its tracking URI and its active run belong to the module, not to a run.  *)

MlflowExperiment == "Default"
AttributeError == Exc("AttributeError", "'NoneType' object has no attribute 'info'")
MlflowException == Exc("MlflowException", "mlflow could not start the run")

\* MLFlowRun(uri, hooks): the object, and mlflow after set_tracking_uri, which
\* is called only for a truthy uri.  _run_id and _experiment_name are
\* properties that read mlflow's active run; the record holds their values.
MLFlowRun_init(uri, hooks, m) ==
    [self |-> [_hooks |-> hooks, _run_id |-> None, _run_started |-> PyBool("False"),
               _experiment_name |-> MlflowExperiment, _path |-> <<>>],
     mlflow |-> IF Truthy(uri) THEN [m EXCEPT !.tracking_uri = uri] ELSE m]

\* The body of MLFlowRun.start_run: the flag is set, then mlflow.start_run
\* starts (or resumes) the run or raises
MLFlowRun_start_run_body(self, run_id, m, fail) ==
    LET id == PyOr(run_id, uuid1)
    IN  IF fail = "no"
        THEN [self |-> [self EXCEPT !._run_started = PyBool("True"), !._run_id = id],
              mlflow |-> [m EXCEPT !.active_run = id], raised |-> NoError]
        ELSE [self |-> [self EXCEPT !._run_started = PyBool("True"),
                                    !._run_id = m.active_run],
              mlflow |-> m, raised |-> MlflowException]

\* The body of MLFlowRun.end_run: mlflow.end_run() only, _run_started is kept
MLFlowRun_end_run_body(self, m) ==
    [self |-> [self EXCEPT !._run_id = None], mlflow |-> [m EXCEPT !.active_run = None]]

----------------------------------------------------------------------------
(* backends.py: MLFlowBackend.  Every method hands over to the mlflow module, *)
(* whose fluent calls log to the active run and start one when none is.      *)

\* MLFlowBackend(): no uri given, so the tracking URI is left as it is
MLFlowBackend_init == [_path |-> <<>>, _run_started |-> PyInt("0")]

\* mlflow.log_metric / log_param / log_artifact / <flavor>.log_model
MlflowLogged(m, id) == IF m.active_run = None THEN [m EXCEPT !.active_run = id] ELSE m

\* a method under if_run_active whose body is one call of mlflow; `raised` is
\* what the body raises before that call
MLFlowBackend_delegate(op, raised) ==
    /\ cls = "MLFlowBackend" /\ ops < MaxOps
    /\ LET out == if_run_active(backend, fs, Outcome(fs, raised))
           starts_one == out.raised = NoError /\ mlflow.active_run = None
       IN  /\ result' = Call(op, out.raised)
           /\ mlflow' = IF out.raised = NoError THEN MlflowLogged(mlflow, uuid1) ELSE mlflow
           /\ uuids' = IF starts_one THEN uuids + 1 ELSE uuids
    /\ ops' = ops + 1
    /\ UNCHANGED <<cls, fs, backend, blocks, run, call, sent, logged, starts, clock,
                   client, dropped, env, procs>>

MLFlowBackend_log_metric(metric, value) == MLFlowBackend_delegate("log_metric", NoError)

MLFlowBackend_log_parameter(parameter, value) ==
    MLFlowBackend_delegate("log_parameter", NoError)

MLFlowBackend_log_artifact(path_to_file, path_to_save) ==
    MLFlowBackend_delegate("log_artifact", NoError)

\* log_model: only the PYFUNC branch tests its argument; KERAS and PYTORCH
\* call nothing
MLFlowBackend_log_model(model, output_dir, library, load_entry_point) ==
    IF library \in {"SCIKIT_LEARN", "PYFUNC"}
    THEN MLFlowBackend_delegate("log_model",
             IF library = "PYFUNC" /\ ~IsInstanceStr(model)
             THEN InvalidModelSource ELSE NoError)
    ELSE /\ cls = "MLFlowBackend" /\ ops < MaxOps
         /\ result' = Call("log_model", if_run_active(backend, fs, Outcome(fs, NoError)).raised)
         /\ ops' = ops + 1
         /\ UNCHANGED <<clientVars, cls, fs, backend, blocks, run, call, sent, logged, uuids,
                        starts, clock>>

\* `with backend.start_run(run_id):` up to the yield: the flag is set, then
\* mlflow.start_run() - without the run_id - starts a run or raises
MLFlowBackend_start_run(run_id, fail) ==
    /\ cls = "MLFlowBackend" /\ blocks < MaxNest /\ starts < MaxStarts
    /\ backend' = [backend EXCEPT !._run_started = PyBool("True")]
    /\ IF fail = "no" /\ mlflow.active_run = None
       THEN /\ mlflow' = [mlflow EXCEPT !.active_run = uuid1]
            /\ uuids' = uuids + 1
            /\ blocks' = blocks + 1
            /\ result' = Call("start_run", NoError)
       ELSE /\ result' = Call("start_run", MlflowException)
            /\ UNCHANGED <<mlflow, uuids, blocks>>
    /\ starts' = starts + 1
    /\ UNCHANGED <<cls, fs, run, call, sent, logged, clock, ops, client, dropped, env, procs>>

\* MLFlowBackend.end_run, under if_run_active: mlflow.end_run(), and the flag
\* is left as it is
MLFlowBackend_end_run_body(self, m) ==
    [self |-> self, mlflow |-> [m EXCEPT !.active_run = None]]

MLFlowBackend_end_run ==
    /\ cls = "MLFlowBackend"
    /\ LET out == if_run_active(backend, fs, Outcome(fs, NoError))
           ended == MLFlowBackend_end_run_body(backend, mlflow)
       IN  /\ result' = Call("end_run", out.raised)
           /\ backend' = IF out.raised = NoError THEN ended.self ELSE backend
           /\ mlflow' = IF out.raised = NoError THEN ended.mlflow ELSE mlflow
    /\ UNCHANGED <<cls, fs, blocks, run, call, sent, logged, uuids, starts, clock, ops,
                   client, dropped, env, procs>>

\* leaving the `with backend.start_run(..)` block: the finally clause calls
\* end_run
MLFlowBackend_exit ==
    /\ cls = "MLFlowBackend" /\ blocks > 0
    /\ LET out == if_run_active(backend, fs, Outcome(fs, NoError))
           ended == MLFlowBackend_end_run_body(backend, mlflow)
       IN  /\ result' = Call("exit", out.raised)
           /\ backend' = IF out.raised = NoError THEN ended.self ELSE backend
           /\ mlflow' = IF out.raised = NoError THEN ended.mlflow ELSE mlflow
    /\ blocks' = blocks - 1
    /\ UNCHANGED <<cls, fs, run, call, sent, logged, uuids, starts, clock, ops,
                   client, dropped, env, procs>>

----------------------------------------------------------------------------
(* client.py: MLClient *)

Backend_LOCAL == PyObject("Backend.LOCAL")
Backend_MLFLOW == PyObject("Backend.MLFLOW")
ImportError ==
    Exc("ImportError", "Trying to create an MLFlowBackend while mlflow is not present on the machine")
NoRunToEnd == Exc("AttributeError", "'NoneType' object has no attribute 'end_run'")
DefaultClientExperiment == "default_experiment"

\* LocalRun(path, experiment_name, hooks)
LocalRun_create(experiment_name, hooks) ==
    [LocalRun_init(hooks) EXCEPT !._experiment_name = experiment_name,
                                 !._path = <<experiment_name>>]

\* A Run object as the client made it: its class, the object, mlflow after
\* the constructor, and what the construction raised
Made(class, self, m, e) == [class |-> class, self |-> self, mlflow |-> m, raised |-> e]

\* get_auto_run(hooks), in the environment e
get_auto_run(hooks, e, m) ==
    IF e.mlflow
    THEN IF e.MLFLOW_TRACKING_URI # None
         THEN LET made == MLFlowRun_init(e.MLFLOW_TRACKING_URI, hooks, m)
              IN  Made("MLFlowRun", made.self, made.mlflow, NoError)
         ELSE LET made == MLFlowRun_init(None, hooks, m)
              IN  Made("MLFlowRun", made.self, made.mlflow, NoError)
    ELSE Made("LocalRun", LocalRun_init(hooks), m, NoError)

\* MLClient.__init__; hooks is what resolve_hooks(hooks_uri) returned.
\* created_in is not a field: it records the environment at construction.
MLClient_init(backend_, backend_uri, experiment, hooks, e) ==
    [_hooks |-> hooks, _backend |-> backend_, _experiment |-> experiment,
     _backend_uri |-> backend_uri, _run |-> "None", pc |-> "", created_in |-> e]

\* MLClient.start_run, the choice of self._run
MLClient_make_run(self, e, m) ==
    IF ~Truthy(self._backend) THEN get_auto_run(self._hooks, e, m)
    ELSE IF self._backend = Backend_LOCAL
    THEN Made("LocalRun", LocalRun_create(self._experiment, self._hooks), m, NoError)
    ELSE IF self._backend = Backend_MLFLOW
    THEN IF e.mlflow
         THEN LET made == MLFlowRun_init(self._backend_uri, self._hooks, m)
              IN  Made("MLFlowRun", made.self, made.mlflow, NoError)
         ELSE Made("None", run, m, ImportError)
    ELSE Made("None", run, m,
              Exc("ValueError", "Unrecognized type of backend requested"))

\* the object self._run referred to is no longer referred to by the client
Drop(d, class, self) == IF class = "None" THEN d ELSE Append(d, [class |-> class, self |-> self])

\* The wrapper around a method of an MLFlowRun reads self._experiment_name
\* and self._run_id for its first hook; with no active run in mlflow the
\* properties raise, before anything is sent
PropertiesRaise(class, self, m, event) ==
    class = "MLFlowRun" /\ m.active_run = None /\ ~self._hooks.isNone
        /\ HooksFor(self, event) # <<>>

\* MLClient.start_run(run_id): a new Run object replaces self._run and is
\* started; `fail` is whether log_environnment / mlflow.start_run fails
MLClient_start_run(run_id, fail) ==
    /\ cls = "MLClient" /\ client.pc = "" /\ Idle /\ starts < MaxStarts
    /\ LET made == MLClient_make_run(client, env, mlflow)
       IN  IF made.raised # NoError
           THEN /\ result' = Call("start_run", made.raised)
                /\ UNCHANGED <<client, dropped, mlflow, run, fs, call, sent, uuids>>
           ELSE /\ client' = [client EXCEPT !._run = made.class]
                /\ dropped' = Drop(dropped, client._run, run)
                /\ sent' = <<>>
                /\ uuids' = IF Truthy(run_id) THEN uuids ELSE uuids + 1
                /\ IF made.class = "LocalRun"
                   THEN LET started == LocalRun_start_run_body(made.self, run_id)
                            out == log_environnment(fs, started._path, fail)
                        IN  /\ run' = started
                            /\ fs' = out.fs
                            /\ mlflow' = made.mlflow
                            /\ call' = Wrapped("start_run", "RUN_STARTED", out.raised)
                            /\ UNCHANGED result
                   ELSE LET out == MLFlowRun_start_run_body(made.self, run_id, made.mlflow, fail)
                            w == Wrapped("start_run", "RUN_STARTED", out.raised)
                        IN  /\ run' = out.self
                            /\ mlflow' = out.mlflow
                            /\ fs' = fs
                            /\ IF PropertiesRaise("MLFlowRun", out.self, out.mlflow, "RUN_STARTED")
                               THEN /\ call' = [w EXCEPT !.active = FALSE]
                                    /\ result' = Call("start_run", AttributeError)
                               ELSE /\ call' = w
                                    /\ UNCHANGED result
    /\ starts' = starts + 1
    /\ UNCHANGED <<cls, backend, blocks, logged, clock, ops, env, procs>>

\* MLClient.end_run, first line: self._run.end_run()
MLClient_end_run ==
    /\ cls = "MLClient" /\ client.pc = "" /\ Idle
    /\ IF client._run = "None"
       THEN /\ result' = Call("end_run", NoRunToEnd)
            /\ UNCHANGED <<client, run, mlflow, call, sent>>
       ELSE /\ client' = [client EXCEPT !.pc = "end_run"]
            /\ sent' = <<>>
            /\ IF client._run = "LocalRun"
               THEN /\ run' = LocalRun_end_run_body(run)
                    /\ call' = Wrapped("end_run", "RUN_ENDED", NoError)
                    /\ UNCHANGED <<mlflow, result>>
               ELSE LET out == MLFlowRun_end_run_body(run, mlflow)
                        w == Wrapped("end_run", "RUN_ENDED", NoError)
                    IN  /\ run' = out.self
                        /\ mlflow' = out.mlflow
                        /\ IF PropertiesRaise("MLFlowRun", out.self, out.mlflow, "RUN_ENDED")
                           THEN /\ call' = [w EXCEPT !.active = FALSE]
                                /\ result' = Call("end_run", AttributeError)
                           ELSE /\ call' = w
                                /\ UNCHANGED result
    /\ UNCHANGED <<cls, fs, backend, blocks, logged, uuids, starts, clock, ops, dropped, env, procs>>

\* MLClient.end_run, second line: self._run = None, reached only when
\* self._run.end_run() raised nothing
MLClient_end_run_return ==
    /\ cls = "MLClient" /\ client.pc = "end_run" /\ Idle
    /\ IF result.raised = NoError
       THEN /\ client' = [client EXCEPT !.pc = "", !._run = "None"]
            /\ dropped' = Drop(dropped, client._run, run)
       ELSE /\ client' = [client EXCEPT !.pc = ""]
            /\ UNCHANGED dropped
    /\ UNCHANGED <<cls, fs, backend, blocks, run, call, sent, logged, result, uuids, starts,
                   clock, ops, env, mlflow, procs>>

\* MLClient(hooks_uri=..): the constructor resolves the hooks first; when
\* resolve_hooks raises there is no object
MLClient_new(hooks_uri) ==
    /\ cls = "MLClient" /\ client.pc = "" /\ Idle
    /\ LET res == resolve_hooks(hooks_uri, env)
       IN  /\ result' = Call("__init__", res.raised)
           /\ IF res.raised = NoError
              THEN /\ client' = MLClient_init(None, None, DefaultClientExperiment, res.hooks, env)
                   /\ dropped' = <<>>
              ELSE UNCHANGED <<client, dropped>>
    /\ UNCHANGED <<cls, fs, backend, blocks, run, call, sent, logged, uuids, starts, clock, ops,
                   env, mlflow, procs>>

\* the process sets or deletes os.environ['MLFLOW_HOOKS_URI']
SetHooksEnviron(value) ==
    /\ cls = "MLClient" /\ client.pc = "" /\ Idle
    /\ env.MLFLOW_HOOKS_URI # value
    /\ env' = [env EXCEPT !.MLFLOW_HOOKS_URI = value]
    /\ UNCHANGED <<cls, fs, backend, blocks, run, call, sent, logged, result, uuids, starts,
                   clock, ops, client, dropped, mlflow, procs>>

\* dict(url=url, name=name), name defaulting to '<event>-hook'
AddedHook(event, url) == [name |-> Lower(event) \o "-hook", url |-> url]

\* self._hooks.setdefault(event.name.lower(), []).append(..)
AddHook(hooks, event, url) ==
    HooksDict([k \in DOMAIN hooks.map \cup {Lower(event)} |->
                 IF k = Lower(event)
                 THEN Append(HooksFor([_hooks |-> hooks], event), AddedHook(event, url))
                 ELSE hooks.map[k]])

\* MLClient.add_hook(event, url).  The dict is the one every Run object of the
\* client was given as hooks, so they all see the new entry.
MLClient_add_hook(event, url) ==
    /\ cls = "MLClient" /\ client.pc = "" /\ Idle
    /\ Len(HooksFor(client, event)) < MaxHooks
    /\ LET added == AddHook(client._hooks, event, url)
       IN  /\ client' = [client EXCEPT !._hooks = added]
           /\ run' = IF client._run = "None" THEN run ELSE [run EXCEPT !._hooks = added]
           /\ dropped' = [i \in 1..Len(dropped) |->
                            [dropped[i] EXCEPT !.self._hooks = added]]
    /\ UNCHANGED <<cls, fs, backend, blocks, call, sent, logged, result, uuids, starts,
                   clock, ops, env, mlflow, procs>>

\* the process sets or deletes os.environ['MLFLOW_TRACKING_URI']
SetEnviron(value) ==
    /\ cls = "MLClient" /\ client.pc = "" /\ Idle
    /\ env.MLFLOW_TRACKING_URI # value
    /\ env' = [env EXCEPT !.MLFLOW_TRACKING_URI = value]
    /\ UNCHANGED <<cls, fs, backend, blocks, run, call, sent, logged, result, uuids, starts,
                   clock, ops, client, dropped, mlflow, procs>>

----------------------------------------------------------------------------
(* The specifications *)

InitCommon ==
    /\ fs = EmptyTree
    /\ backend = LocalBackend_init
    /\ blocks = 0
    /\ call = NoWrapper
    /\ sent = <<>>
    /\ logged = <<>>
    /\ result = NoCall
    /\ uuids = 0
    /\ starts = 0
    /\ clock = 0
    /\ ops = 0
    /\ procs = NoProcs

\* no MLClient is in use: the object under test was constructed directly
NoEnviron == [mlflow |-> FALSE, MLFLOW_TRACKING_URI |-> None, MLFLOW_HOOKS_URI |-> None]
NoClient == MLClient_init(None, None, "", EmptyHooks, NoEnviron)
NoMlflow == [tracking_uri |-> None, active_run |-> None]

InitNoClient ==
    /\ client = NoClient
    /\ dropped = <<>>
    /\ env = NoEnviron
    /\ mlflow = NoMlflow

\* Spec: the store, as written by either class; the LocalRun has the empty
\* hooks dict resolve_hooks gives when no hooks are configured
Init ==
    /\ cls \in {"LocalBackend", "LocalRun"}
    /\ run = LocalRun_init(EmptyHooks)
    /\ InitCommon
    /\ InitNoClient

\* The log calls tried in Spec: every metric value on two names, and a few
\* artifacts and models
ParameterNames == {"alpha"}
ArtifactCalls == {<<"test.txt", None>>, <<"missing.txt", PyStr("inputs")>>}
ModelCalls ==
    {<<PyObject("DummyClassifier"), "SCIKIT_LEARN", None>>,
     <<PyStr("resources"), "PYFUNC", PyStr("my_module.my_class")>>,
     <<PyStr("resources"), "PYFUNC", None>>}

LogCalls ==
    \/ \E m \in MetricNames, v \in MetricValues : LocalBackend_log_metric(m, v)
    \/ \E m \in ParameterNames, v \in ParameterValues : LocalBackend_log_parameter(m, v)
    \/ \E c \in ArtifactCalls : LocalBackend_log_artifact(c[1], c[2])
    \/ \E c \in ModelCalls, o \in OutputDirs : LocalBackend_log_model(c[1], o, c[2], c[3])
    \/ \E m \in MetricNames, v \in MetricValues : LocalRun_log_metric(m, v)
    \/ \E m \in ParameterNames, v \in ParameterValues : LocalRun_log_parameter(m, v)
    \/ \E c \in ArtifactCalls : LocalRun_log_artifact(c[1], c[2])
    \/ \E c \in ModelCalls, o \in OutputDirs : LocalRun_log_model(c[1], o, c[2], c[3])

Next ==
    \/ LogCalls
    \/ \E r \in RunIdArgs, x \in EnvFailures :
          starts < MaxStoreStarts /\ LocalBackend_start_run(r, x)
    \/ LocalBackend_end_run
    \/ LocalBackend_exit
    \/ \E r \in RunIdArgs, x \in EnvFailures :
          starts < MaxStoreStarts /\ LocalRun_start_run(r, x)
    \/ LocalRun_end_run
    \/ WithHooks_return

Spec == Init /\ [][Next]_vars

\* SpecLifecycle: starting, ending, restarting and replacing the object, with
\* the two log calls of the round trip
RoundTripMetric == PyFloat("3.5")
RoundTripParameter == PyFloat("0.05")
LifecycleFailures == {"no", "open"}

NextLifecycle ==
    \/ LocalBackend_log_metric("mse", RoundTripMetric)
    \/ LocalBackend_log_parameter("alpha", RoundTripParameter)
    \/ LocalRun_log_metric("mse", RoundTripMetric)
    \/ LocalRun_log_parameter("alpha", RoundTripParameter)
    \/ \E r \in RunIdArgs, x \in LifecycleFailures : LocalBackend_start_run(r, x)
    \/ LocalBackend_end_run
    \/ LocalBackend_exit
    \/ \E r \in RunIdArgs, x \in LifecycleFailures : LocalRun_start_run(r, x)
    \/ LocalRun_end_run
    \/ LocalRun_new
    \/ WithHooks_return

SpecLifecycle == Init /\ [][NextLifecycle]_vars

\* SpecScoped: runs used through `with` blocks, with what can happen inside a
\* block; the LocalRun has no hooks, an empty dict, or one RUN_ENDED hook
ScopedHooks ==
    {NoHooks, EmptyHooks, HooksDict([run_ended |-> <<HookEntry("http://a/hooks")>>])}

InitScoped ==
    /\ cls \in {"LocalBackend", "LocalRun"}
    /\ run \in {LocalRun_init(h) : h \in ScopedHooks}
    /\ InitCommon
    /\ InitNoClient

NextScoped ==
    \/ \E r \in RunIdArgs, x \in LifecycleFailures : LocalBackend_start_run(r, x)
    \/ LocalBackend_log_metric("mse", RoundTripMetric)
    \/ LocalBackend_end_run
    \/ LocalBackend_exit
    \/ LocalRun_enter
    \/ \E r \in RunIdArgs, x \in LifecycleFailures : LocalRun_start_run(r, x)
    \/ LocalRun_log_metric("mse", RoundTripMetric)
    \/ LocalRun_end_run
    \/ LocalRun_exit
    \/ \E d \in BOOLEAN : WithHooks_send(d)
    \/ WithHooks_return

SpecScoped == InitScoped /\ [][NextScoped]_vars

\* SpecClient: an MLClient, constructed in some environment with some hooks
\* resolved, and the calls made on it while the environment changes
TrackingUris == {None, PyStr(""), PyStr("mock:5000")}
ClientBackends == {None, Backend_LOCAL, Backend_MLFLOW}
ResolvedHooks ==
    {EmptyHooks,
     HooksDict([run_started |-> <<HookEntry("http://a/hooks")>>,
                run_ended |-> <<HookEntry("http://a/hooks")>>])}
Environments ==
    {[mlflow |-> i, MLFLOW_TRACKING_URI |-> u, MLFLOW_HOOKS_URI |-> None] :
        i \in BOOLEAN, u \in TrackingUris}
ClientRunIds == {PyInt("1")}
AddedUrls == {"http://b/hooks"}

InitClient ==
    /\ cls = "MLClient"
    /\ env \in Environments
    /\ client \in {MLClient_init(b, None, DefaultClientExperiment, h, env) :
                      b \in ClientBackends, h \in ResolvedHooks}
    /\ dropped = <<>>
    /\ mlflow = NoMlflow
    /\ run = LocalRun_init(client._hooks)
    /\ InitCommon

NextClient ==
    \/ \E r \in ClientRunIds, x \in LifecycleFailures : MLClient_start_run(r, x)
    \/ MLClient_end_run
    \/ MLClient_end_run_return
    \/ \E ev \in {"RUN_STARTED", "RUN_ENDED"}, u \in AddedUrls : MLClient_add_hook(ev, u)
    \/ \E v \in TrackingUris : SetEnviron(v)
    \/ \E d \in BOOLEAN : WithHooks_send(d)
    \/ WithHooks_return

SpecClient == InitClient /\ [][NextClient]_vars

\* SpecArtifacts: artifacts and models logged by either class, in a run
\* started with run_id 1 (the start may fail when meta.json is written)
ArtifactSources == {"test.txt", "v2/test.txt", "missing.txt"}
SavePaths == {None, PyStr("inputs")}
EntryPoint == PyStr("my_module.my_class")
StoredModels ==
    {<<PyObject("DummyClassifier"), "SCIKIT_LEARN", None>>,
     <<Unpicklable, "SCIKIT_LEARN", None>>,
     <<PyStr("resources"), "PYFUNC", EntryPoint>>,
     <<PyStr("resources/model.pkl"), "PYFUNC", EntryPoint>>,
     <<PyStr("resources"), "PYFUNC", None>>,
     <<PyObject("DummyClassifier"), "PYFUNC", EntryPoint>>,
     <<PyObject("DummyClassifier"), "KERAS", None>>,
     <<PyObject("DummyClassifier"), "PYTORCH", None>>}

NextArtifacts ==
    \/ \E a \in ArtifactSources, d \in SavePaths : LocalBackend_log_artifact(a, d)
    \/ \E c \in StoredModels, o \in OutputDirs : LocalBackend_log_model(c[1], o, c[2], c[3])
    \/ \E a \in ArtifactSources, d \in SavePaths : LocalRun_log_artifact(a, d)
    \/ \E c \in StoredModels, o \in OutputDirs : LocalRun_log_model(c[1], o, c[2], c[3])
    \/ \E x \in LifecycleFailures :
          starts < MaxStoreStarts /\ LocalBackend_start_run(PyInt("1"), x)
    \/ LocalBackend_end_run
    \/ LocalBackend_exit
    \/ \E x \in LifecycleFailures :
          starts < MaxStoreStarts /\ LocalRun_start_run(PyInt("1"), x)
    \/ LocalRun_end_run
    \/ WithHooks_return

SpecArtifacts == Init /\ [][NextArtifacts]_vars

\* SpecRace: two processes, each with a LocalRun started with run_id 1 in the
\* same experiment, logging to the run's documents
InitRace ==
    /\ cls = "LocalRun"
    /\ run = LocalRun_init(EmptyHooks)
    /\ InitCommon
    /\ InitNoClient

NextRace ==
    \/ \E p \in RaceProcs : Race_start(p)
    \/ \E p \in RaceProcs, d \in RaceDocuments : Race_load(p, d)
    \/ \E p \in RaceProcs : Race_open(p)
    \/ \E p \in RaceProcs : Race_dump(p)

SpecRace == InitRace /\ [][NextRace]_vars

\* SpecTests: what test_log_parameter and test_log_metric do, on the
\* LocalBackend of backends.py and on that of core.py
TestParameters == {<<"alpha", PyFloat("0.05")>>, <<"optimizer", PyStr("adam")>>}
TestMetrics == {<<"mse", PyFloat("3.5")>>, <<"optimizer", PyStr("adam")>>}
TestRunIds == {PyInt("1"), None}

InitTests ==
    /\ cls \in {"LocalBackend", "core.LocalBackend"}
    /\ run = LocalRun_init(EmptyHooks)
    /\ InitCommon
    /\ InitNoClient

NextTests ==
    \/ \E r \in TestRunIds : LocalBackend_start_run(r, "no")
    \/ \E c \in TestMetrics : LocalBackend_log_metric(c[1], c[2])
    \/ \E c \in TestParameters : LocalBackend_log_parameter(c[1], c[2])
    \/ LocalBackend_end_run
    \/ LocalBackend_exit
    \/ \E r \in TestRunIds : core_LocalBackend_start_run(r)
    \/ \E c \in TestMetrics : core_LocalBackend_log_metric(c[1], c[2])
    \/ \E c \in TestParameters : core_LocalBackend_log_parameter(c[1], c[2])
    \/ core_LocalBackend_end_run

SpecTests == InitTests /\ [][NextTests]_vars

\* SpecRemote: an MLFlowBackend used through `with` blocks and directly
RemoteModels ==
    {<<PyObject("DummyClassifier"), "SCIKIT_LEARN", None>>,
     <<PyStr("resources"), "PYFUNC", EntryPoint>>,
     <<PyObject("DummyClassifier"), "PYFUNC", EntryPoint>>,
     <<PyObject("DummyClassifier"), "KERAS", None>>}
RemoteFailures == {"no", "raise"}

InitRemote ==
    /\ cls = "MLFlowBackend"
    /\ run = LocalRun_init(EmptyHooks)
    /\ InitCommon
    /\ InitNoClient

NextRemote ==
    \/ \E r \in TestRunIds, x \in RemoteFailures : MLFlowBackend_start_run(r, x)
    \/ MLFlowBackend_log_metric("mse", RoundTripMetric)
    \/ MLFlowBackend_log_parameter("alpha", RoundTripParameter)
    \/ MLFlowBackend_log_artifact("test.txt", None)
    \/ \E c \in RemoteModels : MLFlowBackend_log_model(c[1], "models", c[2], c[3])
    \/ MLFlowBackend_end_run
    \/ MLFlowBackend_exit

SpecRemote == InitRemote /\ [][NextRemote]_vars

\* SpecFrame: the four log calls in runs with two different ids, one after
\* the other, on one object or on a fresh one
FrameRunIds == {PyInt("1"), PyInt("2")}
FrameArtifacts == {<<"test.txt", PyStr("inputs")>>}
FrameModels ==
    {<<PyObject("DummyClassifier"), "SCIKIT_LEARN", None>>,
     <<PyStr("resources"), "PYFUNC", EntryPoint>>}

NextFrame ==
    \/ LocalBackend_log_metric("mse", RoundTripMetric)
    \/ LocalBackend_log_parameter("alpha", RoundTripParameter)
    \/ \E c \in FrameArtifacts : LocalBackend_log_artifact(c[1], c[2])
    \/ \E c \in FrameModels : LocalBackend_log_model(c[1], "models", c[2], c[3])
    \/ LocalRun_log_metric("mse", RoundTripMetric)
    \/ LocalRun_log_parameter("alpha", RoundTripParameter)
    \/ \E c \in FrameArtifacts : LocalRun_log_artifact(c[1], c[2])
    \/ \E c \in FrameModels : LocalRun_log_model(c[1], "models", c[2], c[3])
    \/ \E r \in FrameRunIds, x \in LifecycleFailures : LocalBackend_start_run(r, x)
    \/ LocalBackend_end_run
    \/ LocalBackend_exit
    \/ \E r \in FrameRunIds, x \in LifecycleFailures : LocalRun_start_run(r, x)
    \/ LocalRun_end_run
    \/ LocalRun_new
    \/ WithHooks_return

SpecFrame == Init /\ [][NextFrame]_vars

\* SpecResolve: clients constructed with a hooks_uri argument while the
\* process changes MLFLOW_HOOKS_URI
HooksUris ==
    {PyStr(u) : u \in {"", "http://conf/hooks", "http://down/hooks", "project", "nohooks",
                       "bare", "hooks.json", "notes.txt", "nowhere"}}
HooksUriArgs == {None} \cup HooksUris

InitResolve ==
    /\ cls = "MLClient"
    /\ env = NoEnviron
    /\ client = NoClient
    /\ dropped = <<>>
    /\ mlflow = NoMlflow
    /\ run = LocalRun_init(EmptyHooks)
    /\ InitCommon

NextResolve ==
    \/ \E u \in HooksUriArgs : MLClient_new(u)
    \/ \E v \in HooksUriArgs : SetHooksEnviron(v)

SpecResolve == InitResolve /\ [][NextResolve]_vars

\* SpecHooks: a LocalRun with hooks registered, and its lifecycle calls
HookLists == UNION {[1..n -> {HookEntry(u) : u \in Urls}] : n \in 0..MaxHooks}
HookMaps == UNION {[K -> HookLists] : K \in SUBSET {"run_started", "run_ended"}}
HookConfigs == {NoHooks} \cup {HooksDict(m) : m \in HookMaps}

InitHooks ==
    /\ cls = "LocalRun"
    /\ run \in {LocalRun_init(h) : h \in HookConfigs}
    /\ InitCommon
    /\ InitNoClient

NextHooks ==
    \/ \E r \in RunIdArgs, x \in EnvFailures : LocalRun_start_run(r, x)
    \/ LocalRun_end_run
    \/ \E d \in BOOLEAN : WithHooks_send(d)
    \/ WithHooks_return

SpecHooks == InitHooks /\ [][NextHooks]_vars

----------------------------------------------------------------------------
(* The claims *)

BackendActive == Truthy(backend._run_started)
RunActive == Truthy(run._run_started)

\* the documents of the store: every metrics.json and parameters.json
IsDocument(p, name) == p # <<>> /\ p[Len(p)] = name
DocumentPaths ==
    {p \in DOMAIN fs : IsDocument(p, "metrics.json") \/ IsDocument(p, "parameters.json")}

\* C1: a log_parameter, log_metric, log_artifact or log_model call on a
\* LocalBackend with no active run (never started, or ended) raises the
\* run-not-active error and leaves the whole tree as it was.
C1_BackendLogWithoutRun ==
    [][(cls = "LocalBackend" /\ ~BackendActive /\ ops' = ops + 1)
        => (result'.raised = RunNotActive /\ fs' = fs)]_vars

\* a log_model call was refused on a backend whose run had been started, had
\* written its directory and was ended
C1_Witness ==
    /\ cls = "LocalBackend" /\ ~BackendActive
    /\ result = Call("log_model", RunNotActive)
    /\ fs # EmptyTree

\* C2: a log call on a LocalRun that is INACTIVE (never started, or ended)
\* raises the run-not-active error and writes nothing.
C2_RunLogWithoutRun ==
    [][(cls = "LocalRun" /\ ~RunActive /\ ops' = ops + 1)
        => (result'.raised = RunNotActive /\ fs' = fs)]_vars

C4_StringMetricRejected ==
    [][\A m \in MetricNames, v \in MetricValues :
          (/\ IsInstanceStr(v)
           /\ \/ RunActive /\ LocalRun_log_metric(m, v)
              \/ BackendActive /\ LocalBackend_log_metric(m, v))
          => (result'.raised = InvalidMetricType /\ fs' = fs)]_vars

\* a string metric was refused in an active run that has a metrics document
C4_Witness ==
    /\ result = Call("log_metric", InvalidMetricType)
    /\ \/ cls = "LocalRun" /\ RunActive
       \/ cls = "LocalBackend" /\ BackendActive
    /\ \E p \in DOMAIN fs : IsDocument(p, "metrics.json")

\* C5: every value stored in every metric's sequence is an int or a float.
C5_MetricsAreNumeric ==
    \A p \in DOMAIN fs :
        (IsDocument(p, "metrics.json") /\ fs[p].kind = "file")
        => \A k \in DOMAIN fs[p].doc :
              \A i \in 1..Len(fs[p].doc[k].items) :
                  JsonLoad(fs[p].doc[k].items[i]).t \in {"int", "float"}

\* a wrapped call has ended: `call` holds its locals, `result` what it raised
WrappedCallEnded == cls = "LocalRun" /\ call.op # "" /\ ~call.active
DeliveryFailed == \E i \in 1..Len(sent) : ~sent[i].delivered

\* C6: when the delivery of a notification fails, the wrapped start_run or
\* end_run ends as its body ended (normally, when the body returned), no
\* delivery exception escapes, and after a start_run that returned the run is
\* ACTIVE.
C6_HookFailureIsolated ==
    (WrappedCallEnded /\ DeliveryFailed)
    => /\ result.raised = call.error
       /\ (call.op = "start_run" /\ call.error = NoError) => RunActive

\* C7: whenever the wrapped method raised E, the caller of the wrapper gets E.
C7_WrappedErrorNotMasked ==
    (WrappedCallEnded /\ call.error # NoError) => result.raised = call.error

\* C8: every notification says "success" with no message exactly when the
\* wrapped method returned and "failed" with the error's text exactly when it
\* raised, and carries the event name, the experiment name and the run id;
\* when the method raised, the caller gets that error after the notifications.
C8_StatusReflectsOutcome ==
    (cls = "LocalRun" /\ call.op # "" /\ ~run._hooks.isNone)
    => /\ \A i \in 1..Len(sent) :
             /\ (sent[i].status = "success" /\ sent[i].payload.message = None)
                   <=> call.error = NoError
             /\ (sent[i].status = "failed"
                    /\ sent[i].payload.message = PyStr(call.error.msg))
                   <=> call.error # NoError
             /\ sent[i].event = call.event
             /\ sent[i].payload.experiment = run._experiment_name
             /\ sent[i].payload.run = Str(run._run_id)
       /\ (~call.active /\ call.error # NoError)
             => (result.raised = call.error
                 /\ Len(sent) = Len(HooksFor(run, call.event)))

\* C9: a notification is sent only after the body of start_run / end_run has
\* run: when a RUN_STARTED success notification is sent the run is ACTIVE, its
\* run_id is assigned and is the one notified, and its meta.json is written;
\* when a RUN_ENDED notification is sent the run is INACTIVE.
C9_HooksFireAfterBody ==
    [][Len(sent') = Len(sent) + 1
        => LET n == sent'[Len(sent')]
           IN  /\ call.active
               /\ (n.event = "RUN_STARTED" /\ n.status = "success")
                     => /\ RunActive
                        /\ run._run_id # None
                        /\ n.payload.run = Str(run._run_id)
                        /\ IsFileAt(fs, Join(run._path, <<"meta.json">>))
               /\ n.event = "RUN_ENDED" => ~RunActive]_vars

\* a RUN_STARTED success notification was delivered
C9_Witness ==
    /\ cls = "LocalRun" /\ sent # <<>>
    /\ sent[1].event = "RUN_STARTED" /\ sent[1].status = "success"
    /\ sent[1].delivered

\* C10: a wrapped call POSTs one notification to each URL registered for its
\* event, in registration order, and to no other URL, whether or not a
\* delivery fails.
C10_EveryHookNotifiedOnce ==
    WrappedCallEnded
    => [i \in 1..Len(sent) |-> sent[i].url]
         = [i \in 1..Len(HooksFor(run, call.event)) |-> HooksFor(run, call.event)[i].url]

\* C11: when a `with` block around a run is left - normally, by an exception,
\* after an explicit end_run inside it - end_run has been called and the run
\* is INACTIVE, and it is still INACTIVE when __exit__ is over.
C11_ScopedRunEnded ==
    [][/\ blocks' < blocks
          => IF cls = "LocalBackend"
             THEN result'.op = "exit" /\ ~Truthy(backend'._run_started)
             ELSE call'.event = "RUN_ENDED" /\ ~Truthy(run'._run_started)
       /\ (cls = "LocalRun" /\ call.op = "__exit__" /\ call.active /\ ~call'.active)
          => ~Truthy(run'._run_started)]_vars

\* a `with backend.start_run(..)` block was left after an end_run inside it
C11_Witness ==
    /\ cls = "LocalBackend" /\ blocks = 0 /\ starts > 0
    /\ result = Call("exit", RunNotActive)
    /\ ~BackendActive

\* C12: start_run on an object whose run is ACTIVE fails, and leaves the run
\* ACTIVE with the run_id and the path it had.
C12_StartWhileActiveFails ==
    [][\A r \in RunIdArgs, x \in EnvFailures :
          /\ (RunActive /\ LocalRun_start_run(r, x))
                => (call'.error # NoError /\ run' = run)
          /\ (BackendActive /\ LocalBackend_start_run(r, x))
                => (result'.raised # NoError /\ backend' = backend)]_vars

\* C14: an ACTIVE LocalRun reads and writes <base>/mlruns/<experiment>/<run_id>.
C14_RunPath ==
    (cls = "LocalRun" /\ RunActive)
    => run._path = <<run._experiment_name, Str(run._run_id)>>

\* C15: start_run called with the sentinel 0 fails with the invalid-run-id
\* error, generates no id, and the run does not become ACTIVE.
C15_SentinelRunIdRejected ==
    [][\A x \in EnvFailures :
          /\ LocalBackend_start_run(PyInt("0"), x)
                => (result'.raised = InvalidRunId /\ uuids' = uuids
                    /\ ~Truthy(backend'._run_started))
          /\ LocalRun_start_run(PyInt("0"), x)
                => (call'.error = InvalidRunId /\ uuids' = uuids
                    /\ ~Truthy(run'._run_started))]_vars

\* C16: end_run on a run that is INACTIVE raises nothing, leaves the run
\* INACTIVE and the tree as it was, for LocalRun and for LocalBackend.
C16_EndRunIdempotent ==
    [][/\ (~BackendActive /\ LocalBackend_end_run)
          => (result'.raised = NoError /\ ~Truthy(backend'._run_started) /\ fs' = fs)
       /\ (~RunActive /\ LocalRun_end_run)
          => (call'.error = NoError /\ ~Truthy(run'._run_started) /\ fs' = fs)]_vars

\* the items of a document's sequences, before and after a step
IsPrefix(s, t) == Len(s) <= Len(t) /\ SubSeq(t, 1, Len(s)) = s

RunObjectActive(class, self) ==
    IF class = "LocalRun" THEN Truthy(self._run_started)
    ELSE /\ class = "MLFlowRun" /\ Truthy(self._run_started)
         /\ mlflow.active_run # None /\ self._run_id = mlflow.active_run

ActiveDropped ==
    {i \in 1..Len(dropped) : RunObjectActive(dropped[i].class, dropped[i].self)}

\* C13: of the Run objects an MLClient created, at most one is ACTIVE, and
\* none is ACTIVE that the client no longer refers to.
C13_OneActiveRun ==
    cls = "MLClient"
    => /\ ActiveDropped = {}
       /\ Cardinality(ActiveDropped)
             + (IF RunObjectActive(client._run, run) THEN 1 ELSE 0) <= 1

\* C18: no step changes the hooks of the client, nor the hooks a run of the
\* client notifies, after the client was constructed.
C18_HooksImmutable ==
    [][cls = "MLClient"
        => /\ client'._hooks = client._hooks
           /\ (client._run # "None" /\ client'._run = client._run /\ starts' = starts)
                 => run'._hooks = run._hooks]_vars

\* C19: every start_run of a client makes the Run variant, with the tracking
\* URI, that the selection gives in the environment the client was
\* constructed in, whatever the environment is by then.
C19_BackendChosenAtConstruction ==
    [][\A r \in ClientRunIds, x \in LifecycleFailures :
          LET chosen == MLClient_make_run(client, client.created_in, mlflow)
          IN  (MLClient_start_run(r, x) /\ chosen.raised = NoError)
              => /\ client'._run = chosen.class
                 /\ mlflow'.tracking_uri = chosen.mlflow.tracking_uri]_vars

\* C20: the automatic selection depends only on whether mlflow can be imported
\* and on MLFLOW_TRACKING_URI: a LocalRun when mlflow cannot be imported; an
\* MLFlowRun otherwise, with no tracking URI set when the variable is unset and
\* the variable's value as tracking URI when it is set.
C20_AutoSelection ==
    [][\A r \in ClientRunIds, x \in LifecycleFailures :
          (MLClient_start_run(r, x) /\ ~Truthy(client._backend))
          => IF ~env.mlflow
             THEN client'._run = "LocalRun"
             ELSE /\ client'._run = "MLFlowRun"
                  /\ mlflow'.tracking_uri = env.MLFLOW_TRACKING_URI]_vars

\* the URI the claim has resolve_hooks work on: the argument when one is
\* passed, else the variable when it is set, else none
HooksHint(hooks_uri, e) == IF hooks_uri # None THEN hooks_uri ELSE e.MLFLOW_HOOKS_URI

\* C21: resolve_hooks gives the empty mapping exactly when neither a hooks_uri
\* argument nor MLFLOW_HOOKS_URI is given; a given URI (the argument before the
\* variable) gives the document of the reachable URL, else of the directory's
\* MLproject hooks section, else of the JSON file, and raises when it is none
\* of these.
C21_ResolveHooks ==
    [][\A u \in HooksUriArgs :
          MLClient_new(u)
          => LET hint == HooksHint(u, env)
                 what == IF hint = None THEN "" ELSE Denotes(Str(hint))
             IN  /\ (result'.raised = NoError /\ client'._hooks = EmptyHooks)
                       <=> hint = None
                 /\ what = "url" => (result'.raised = NoError /\ client'._hooks = UrlHooks)
                 /\ what = "project"
                       => (result'.raised = NoError /\ client'._hooks = ProjectHooks)
                 /\ what = "json" => (result'.raised = NoError /\ client'._hooks = FileHooks)
                 /\ (hint # None /\ what \notin {"url", "project", "json"})
                       => result'.raised # NoError]_vars

\* the directory of the object's run, and whether its start_run completed:
\* the last thing start_run does is to write meta.json
RunRoot == IF cls = "LocalRun" THEN run._path ELSE LocalBackend_run_path(backend)
ObjectActive == IF cls = "LocalRun" THEN RunActive ELSE BackendActive
RunStarted == ObjectActive /\ IsFileAt(fs, Join(RunRoot, <<"meta.json">>))

\* the files of a tree (its directories left out)
FilesOf(f) == {p \in DOMAIN f : f[p].kind = "file"}
SameFiles(f, g) == FilesOf(f) = FilesOf(g) /\ \A p \in FilesOf(f) : f[p] = g[p]

\* the call made in this step, on the object of either class
LogModelCalled(model, output_dir, library, load_entry_point) ==
    \/ LocalRun_log_model(model, output_dir, library, load_entry_point)
    \/ LocalBackend_log_model(model, output_dir, library, load_entry_point)

MetaOf(f, root) == LoadDoc(f[Join(root, <<"meta.json">>)].doc)

\* C22: in a run that was started, log_model for a PYFUNC model whose model
\* argument is no string raises the invalid-model-source error, and with a
\* string model and no load_entry_point the missing-entry-point error; in both
\* cases no file is added or changed, meta.json included.  When the call
\* returns, meta.json holds loadEntryPoint = load_entry_point.
C22_PyfuncValidated ==
    [][\A c \in StoredModels, o \in OutputDirs :
          (RunStarted /\ c[2] = "PYFUNC" /\ LogModelCalled(c[1], o, c[2], c[3]))
          => /\ ~IsInstanceStr(c[1])
                   => (result'.raised = InvalidModelSource /\ SameFiles(fs, fs'))
             /\ (IsInstanceStr(c[1]) /\ c[3] = None)
                   => (result'.raised = MissingEntryPoint /\ SameFiles(fs, fs'))
             /\ result'.raised = NoError
                   => /\ "loadEntryPoint" \in DOMAIN MetaOf(fs', RunRoot)
                      /\ MetaOf(fs', RunRoot)["loadEntryPoint"] = c[3]]_vars

\* a PYFUNC model without load_entry_point was refused in a started run whose
\* meta.json holds what start_run wrote, and nothing is below models/
C22_Witness ==
    /\ RunStarted
    /\ result = Call("log_model", MissingEntryPoint)
    /\ MetaOf(fs, RunRoot) = EnvironmentInfos
    /\ IsDirAt(fs, Join(RunRoot, <<"artifacts", "models">>))
    /\ ~Exists(fs, Join(RunRoot, <<"artifacts", "models", "data">>))

\* the caller's files below a source directory, the directory itself left out
SourceFilesBelow(src) == {p \in DOMAIN SrcTree : IsBelow(src, p) /\ SrcTree[p].kind = "file"}

\* C23: after a PYFUNC log_model that returned, data below the output
\* directory is a directory; a file source is the file data/<basename> and a
\* directory source the tree data/<dirname>, every file of the source at its
\* relative path with its content - whatever was logged before.
C23_PyfuncLayout ==
    [][\A c \in StoredModels, o \in OutputDirs :
          (RunStarted /\ c[2] = "PYFUNC" /\ LogModelCalled(c[1], o, c[2], c[3])
             /\ result'.raised = NoError)
          => LET src == PathOf(Str(c[1]))
                 data == Join(RunRoot, <<"artifacts", o, "data">>)
             IN  /\ IsDirAt(fs', data)
                 /\ IF SrcTree[src].kind = "file"
                    THEN /\ IsFileAt(fs', Join(data, Basename(src)))
                         /\ fs'[Join(data, Basename(src))] = SrcTree[src]
                    ELSE \A p \in SourceFilesBelow(src) :
                            LET q == Join(Join(data, Basename(src)), Relative(src, p))
                            IN  IsFileAt(fs', q) /\ fs'[q] = SrcTree[p]]_vars

\* the metadata fields log_model assigns for a library
FieldsSet(library) ==
    {"updateTime"} \cup (IF library = "SCIKIT_LEARN" THEN {"scikit-learn"}
                         ELSE IF library = "PYFUNC" THEN {"loadEntryPoint"} ELSE {})

\* C24: in a run that was started, log_model with KERAS or PYTORCH returns
\* normally and adds no file; every log_model that returns writes a new
\* updateTime to meta.json and keeps every field it does not assign as it was.
C24_ModelMetadata ==
    [][\A c \in StoredModels, o \in OutputDirs :
          (RunStarted /\ LogModelCalled(c[1], o, c[2], c[3]))
          => LET meta == Join(RunRoot, <<"meta.json">>)
                 old == MetaOf(fs, RunRoot)
                 new == MetaOf(fs', RunRoot)
             IN  /\ c[2] \in {"KERAS", "PYTORCH"}
                       => /\ result'.raised = NoError
                          /\ FilesOf(fs') = FilesOf(fs)
                          /\ \A p \in FilesOf(fs) \ {meta} : fs'[p] = fs[p]
                 /\ result'.raised = NoError
                       => /\ "updateTime" \in DOMAIN new
                          /\ new["updateTime"] = Now(clock')
                          /\ "updateTime" \in DOMAIN old
                                => new["updateTime"] # old["updateTime"]
                          /\ \A k \in DOMAIN old \ FieldsSet(c[2]) :
                                k \in DOMAIN new /\ new[k] = old[k]]_vars

\* two log_model calls returned, one of them for a PYFUNC directory and the
\* other storing nothing: meta.json has the environment fields, loadEntryPoint
\* and the second updateTime
C24_Witness ==
    /\ RunStarted /\ clock = 2
    /\ result = Call("log_model", NoError)
    /\ DOMAIN MetaOf(fs, RunRoot) = {"requirements", "python", "loadEntryPoint", "updateTime"}
    /\ MetaOf(fs, RunRoot)["updateTime"] = Now(2)
    /\ MetaOf(fs, RunRoot)["requirements"] = Requirements
    /\ {p \in FilesOf(fs) : IsBelow(Join(RunRoot, <<"artifacts">>), p)}
          = {Join(RunRoot, <<"artifacts", "models", "data", "resources", "model.pkl">>)}

LogArtifactCalled(path_to_file, path_to_save) ==
    \/ LocalRun_log_artifact(path_to_file, path_to_save)
    \/ LocalBackend_log_artifact(path_to_file, path_to_save)

\* artifacts/[path_to_save/]basename(path_to_file) below the run's directory
ArtifactKey(path_to_file, path_to_save) ==
    Join(Join(RunRoot, <<"artifacts">>),
         Join(IF path_to_save = None THEN <<>> ELSE PathOf(Str(path_to_save)),
              Basename(PathOf(path_to_file))))

\* C25: in an active run, log_artifact of an existing source file returns and
\* the file under its key has the content of the source, whether or not the
\* key or its directories existed, and no other file is added or changed; with
\* a missing source it raises FileNotFoundError and no file is added or changed.
C25_ArtifactStored ==
    [][\A a \in ArtifactSources, d \in SavePaths :
          (ObjectActive /\ LogArtifactCalled(a, d))
          => LET key == ArtifactKey(a, d)
             IN  IF PathOf(a) \in DOMAIN SrcTree
                 THEN /\ result'.raised = NoError
                      /\ IsFileAt(fs', key) /\ fs'[key] = SrcTree[PathOf(a)]
                      /\ FilesOf(fs') = FilesOf(fs) \cup {key}
                      /\ \A p \in FilesOf(fs) \ {key} : fs'[p] = fs[p]
                 ELSE /\ result'.raised = FileNotFound
                      /\ SameFiles(fs, fs')]_vars

\* two artifacts were logged: artifacts/test.txt has the content of the second
\* source of that name, and it is the only artifact
C25_Witness ==
    /\ ObjectActive /\ ops = 2
    /\ result = Call("log_artifact", NoError)
    /\ IsFileAt(fs, Join(RunRoot, <<"artifacts", "test.txt">>))
    /\ fs[Join(RunRoot, <<"artifacts", "test.txt">>)] = SrcTree[<<"v2", "test.txt">>]
    /\ {p \in FilesOf(fs) : IsBelow(Join(RunRoot, <<"artifacts">>), p)}
          = {Join(RunRoot, <<"artifacts", "test.txt">>)}

\* no call is in progress in any process
RaceQuiet == \A p \in RaceProcs : procs.at[p].pc \in {"new", "idle"}

\* C26: as long as no call began while another process's call on the run was
\* in progress, every document holds every value whose call returned, in call
\* order; and when calls did overlap, a call that returns leaves its own value
\* last in the document it wrote (the last writer wins).
C26_RaceOnDocument ==
    [][/\ (RaceQuiet' /\ ~procs'.overlapped)
          => \A path \in DOMAIN logged' :
                /\ IsFileAt(fs', path) /\ fs'[path].fmt = "json"
                /\ LoadDoc(fs'[path].doc) = [k \in DOMAIN logged'[path] |->
                                                PyList(logged'[path][k])]
       /\ \A p \in RaceProcs :
             Race_dump(p)
             => LET path == Join(RacingRun._path, <<procs.at[p].doc>>)
                    items == LoadDoc(fs'[path].doc)[RaceKey(procs.at[p].doc)].items
                IN  result'.raised = NoError /\ items[Len(items)] = RaceValue(p)]_vars

\* both processes logged mse, both calls returned, and metrics.json holds only
\* one of the two values
C26_Witness ==
    LET path == Join(RacingRun._path, <<"metrics.json">>)
    IN  /\ RaceQuiet /\ procs.overlapped
        /\ path \in DOMAIN logged /\ Len(logged[path]["mse"]) = 2
        /\ result = Call("log_metric", NoError)
        /\ IsFileAt(fs, path) /\ fs[path].fmt = "json"
        /\ Len(LoadDoc(fs[path].doc)["mse"].items) = 1

\* C27: for a LocalBackend started with run_id 1, of backends.py or of core.py,
\* a log_parameter(name, v) that returned, and a log_metric(name, v) that
\* returned for a numeric v, leaves the file 1/parameters.json (1/metrics.json)
\* with document[name] = v.
C27_DocumentMapsNameToValue ==
    [][\A c \in TestParameters \cup TestMetrics, doc \in {"parameters.json", "metrics.json"} :
          (/\ backend._run_started = PyInt("1")
           /\ IF doc = "parameters.json"
              THEN \/ LocalBackend_log_parameter(c[1], c[2])
                   \/ core_LocalBackend_log_parameter(c[1], c[2])
              ELSE /\ ~IsInstanceStr(c[2])
                   /\ \/ LocalBackend_log_metric(c[1], c[2])
                      \/ core_LocalBackend_log_metric(c[1], c[2])
           /\ result'.raised = NoError)
          => /\ IsFileAt(fs', <<"1", doc>>)
             /\ c[1] \in DOMAIN fs'[<<"1", doc>>].doc
             /\ JsonLoad(fs'[<<"1", doc>>].doc[c[1]]) = c[2]]_vars

\* C28: MLFlowBackend.end_run - called directly or on leaving the start_run
\* block - leaves the backend INACTIVE, and a log call made after it, before
\* another start_run, raises the run-not-active error.
C28_RemoteEndedRefusesLogs ==
    [][cls = "MLFlowBackend"
        => /\ (MLFlowBackend_end_run \/ MLFlowBackend_exit)
                 => ~Truthy(backend'._run_started)
           /\ (result.op \in {"end_run", "exit"} /\ ops' = ops + 1)
                 => result'.raised = RunNotActive]_vars

\* C29: a start_run that raises - the run directory cannot be made, or
\* meta.json cannot be written - leaves the object INACTIVE with the storage
\* path it had, so that the next log call raises the run-not-active error;
\* for LocalRun and for LocalBackend.
C29_FailedStartLeavesInactive ==
    [][/\ \A r \in RunIdArgs, x \in EnvFailures :
             /\ (LocalRun_start_run(r, x) /\ call'.error # NoError)
                   => (~Truthy(run'._run_started) /\ run'._path = run._path)
             /\ (LocalBackend_start_run(r, x) /\ result'.raised # NoError)
                   => (~Truthy(backend'._run_started)
                       /\ LocalBackend_run_path(backend') = LocalBackend_run_path(backend))
       /\ (result.op = "start_run" /\ result.raised # NoError /\ ops' = ops + 1)
             => result'.raised = RunNotActive]_vars

\* the paths a step adds, removes or changes
Changed(f, g) ==
    {p \in DOMAIN f \cup DOMAIN g : p \notin DOMAIN f \/ p \notin DOMAIN g \/ f[p] # g[p]}

\* C30: a log call in an active run changes nothing outside its part of the
\* run's directory - metrics.json for log_metric, parameters.json for
\* log_parameter, artifacts/ for log_artifact, artifacts/ and meta.json for
\* log_model - so no file of another run; and it leaves the object's state,
\* run id and path as they were.
C30_LogFrame ==
    [][(ObjectActive /\ ops' = ops + 1)
        => LET changed == Changed(fs, fs')
               artifacts == {p \in changed : IsBelow(Join(RunRoot, <<"artifacts">>), p)}
           IN  /\ run' = run /\ backend' = backend
               /\ result'.op = "log_metric"
                     => changed \subseteq {Join(RunRoot, <<"metrics.json">>)}
               /\ result'.op = "log_parameter"
                     => changed \subseteq {Join(RunRoot, <<"parameters.json">>)}
               /\ result'.op = "log_artifact" => changed \subseteq artifacts
               /\ result'.op = "log_model"
                     => changed \subseteq artifacts \cup {Join(RunRoot, <<"meta.json">>)}]_vars

\* a LocalBackend in its second run, with id 2, has logged mse there; run 1
\* has the metrics.json its own log call wrote
C30_Witness ==
    /\ cls = "LocalBackend" /\ backend._run_started = PyInt("2")
    /\ result = Call("log_metric", NoError)
    /\ IsFileAt(fs, <<"1", "metrics.json">>) /\ IsFileAt(fs, <<"2", "metrics.json">>)
    /\ LoadDoc(fs[<<"1", "metrics.json">>].doc) = LoadDoc(fs[<<"2", "metrics.json">>].doc)
    /\ LoadDoc(fs[<<"2", "metrics.json">>].doc)["mse"] = PyList(<<RoundTripMetric>>)

\* meta.json of the run as a node of the tree, or nothing when it is absent
MetaNode(f, root) ==
    IF Exists(f, Join(root, <<"meta.json">>)) THEN {f[Join(root, <<"meta.json">>)]} ELSE {}

\* C31: a log_model call that raises - whether on the PYFUNC arguments, on
\* pickling the model, or on copying the source, as when the destination
\* directory exists from an earlier log of the same directory - leaves
\* meta.json as it was before the call.
C31_FailedLogModelKeepsMeta ==
    [][(result'.op = "log_model" /\ ops' = ops + 1 /\ result'.raised # NoError)
          => MetaNode(fs', RunRoot) = MetaNode(fs, RunRoot)]_vars

\* the second log of the directory `resources` into models/ was refused
\* because data/resources exists; meta.json holds what the first log saved,
\* at the first reading of the clock
C31_Witness ==
    /\ RunStarted
    /\ result = Call("log_model", FileExists)
    /\ IsDirAt(fs, Join(RunRoot, <<"artifacts", "models", "data", "resources">>))
    /\ MetaOf(fs, RunRoot) =
          SetItem(SetItem(EnvironmentInfos, "loadEntryPoint", EntryPoint), "updateTime", Now(1))
    /\ clock = 2

\* the directory of the run with id r below the object's base path and
\* experiment, and the paths of that run a restart is said to leave alone
RunDirOf(r) == IF cls = "LocalRun" THEN <<ExperimentName, Str(r)>> ELSE <<Str(r)>>
LoggedPaths(f, dir) ==
    {p \in DOMAIN f : \/ p \in {Join(dir, <<"metrics.json">>), Join(dir, <<"parameters.json">>)}
                      \/ IsBelow(Join(dir, <<"artifacts">>), p)}

\* start_run(r) has been called in this step and did not raise
Restarted(r) ==
    \E x \in LifecycleFailures :
        \/ LocalRun_start_run(r, x) /\ call'.error = NoError
        \/ LocalBackend_start_run(r, x) /\ result'.raised = NoError

\* C32: start_run with the id of a run whose directory and meta.json are on
\* disk leaves that run's metrics.json, parameters.json and artifacts as they
\* are, and leaves in its meta.json the environment fields only: what
\* log_model recorded there in an earlier active window is gone.
C32_RestartRewritesMeta ==
    [][\A r \in FrameRunIds :
          (IsFileAt(fs, Join(RunDirOf(r), <<"meta.json">>)) /\ Restarted(r))
          => /\ LoggedPaths(fs', RunDirOf(r)) = LoggedPaths(fs, RunDirOf(r))
             /\ \A p \in LoggedPaths(fs, RunDirOf(r)) : fs'[p] = fs[p]
             /\ MetaOf(fs', RunDirOf(r)) = EnvironmentInfos]_vars

\* a wrapped call on the client's MLFlowRun ends in this step, with hooks
\* registered for its event and every POST made for it answered
MlflowCallEnds ==
    /\ cls = "MLClient" /\ client'._run = "MLFlowRun"
    /\ ~call'.active /\ call' # call
    /\ ~run'._hooks.isNone /\ HooksFor(run', call'.event) # <<>>
    /\ \A i \in DOMAIN sent' : sent'[i].delivered

\* C33: end_run of an MLFlowRun with RUN_ENDED hooks returns normally, and a
\* failed start_run with RUN_STARTED hooks raises the error mlflow raised; in
\* both cases every hook of the event has been sent a notification that names
\* mlflow's experiment and the id of the run.
C33_MlflowRunNotifies ==
    [][(MlflowCallEnds /\ (call'.op = "end_run" \/ call'.error # NoError))
          => /\ result'.raised = call'.error
             /\ Len(sent') = Len(HooksFor(run', call'.event))
             /\ \A i \in DOMAIN sent' :
                   /\ sent'[i].payload.experiment = MlflowExperiment
                   /\ sent'[i].payload.run \in {Str(r) : r \in ClientRunIds}]_vars

====
